---------------------------- MODULE Spec2Model ----------------------------
(***************************************************************************)
(* Remote-support pairing service.                                         *)
(*                                                                         *)
(* Part I  : the session gateway (src/server/socket.js) over the in-memory *)
(*           room registry (src/server/memoryStore.js).                    *)
(* Part II : the endpoint-local WebRtcManager (src/unnamed/part_001, the   *)
(*           compiled form of src/unnamed/part_002).                       *)
(***************************************************************************)
EXTENDS Integers, Sequences, FiniteSets, TLC

(***************************************************************************)
(* Bounds of the model.                                                    *)
(***************************************************************************)
\* number of transport connections (socket ids) that ever connect
NumSockets == 3
\* number of rooms createRoom may create in one run
MaxRooms == 2

Sockets == 1..NumSockets
NoSocket == 0
NoUser == "none"
\* sample identifiers matching USER_ID_PATTERN (socket.js:3)
AllUsers == {"user-aaaa-1", "user-bbbb-2", "user-cccc-3"}
\* the identities the connections of the gateway specifications present
Users == {"user-aaaa-1", "user-bbbb-2"}
\* a value that fails isUserId (too short)
InvalidUserId == "x"
\* sample outcomes of Math.random() * 1_000_000 floored (memoryStore.js:4)
SampleNumbers == {42, 482913}
\* the least and greatest outcomes of each length (memoryStore.js:4)
BoundaryNumbers == {0, 9, 10, 99999, 100000, 999999}
Roles == {"host", "client"}
\* opaque negotiation payloads as seen by the relay; the last fails isWebRtcSignal
Signals == {[type |-> "offer", sdp |-> "v=0 a"], [type |-> "ice-candidate", candidate |-> "cand 1"]}
InvalidSignal == [type |-> "offer", sdp |-> ""]

VARIABLES
  rooms,      \* memoryStore.rooms: the room records in insertion order
  sockets,    \* per socket id: transport status and socket.data.userId
  rtc,        \* one endpoint's WebRtcManager and its suspended async calls
  link        \* the endpoint's page and its socket.io link to the gateway

gwVars == <<rooms, sockets>>

(***************************************************************************)
(* memoryStore.js                                                          *)
(***************************************************************************)
RECURSIVE Digits(_)
\* Number.prototype.toString for a non-negative integer
Digits(n) == IF n < 10 THEN <<n>> ELSE Digits(n \div 10) \o <<n % 10>>

RECURSIVE padStart(_, _)
\* String.prototype.padStart(len, "0")
padStart(ds, len) == IF Len(ds) >= len THEN ds ELSE padStart(<<0>> \o ds, len)

randomRoomId(n) == padStart(Digits(n), 6)

\* ROOM_ID_PATTERN /^\d{6}$/
RoomIdPattern(v) == Len(v) = 6 /\ \A i \in 1..Len(v) : v[i] \in 0..9

RoomIds == {randomRoomId(n) : n \in SampleNumbers}
InvalidRoomId == <<1, 2, 3>>

RoomIndex(id) ==
  IF \E i \in 1..Len(rooms) : rooms[i].id = id
  THEN CHOOSE i \in 1..Len(rooms) : rooms[i].id = id
  ELSE 0

\* ensureRoomId that returns the first random id, used or not
ensureRoomIdFirstDraw == RoomIds

\* the ids ensureRoomId can return in the current registry
ensureRoomId == {id \in RoomIds : RoomIdPattern(id) /\ RoomIndex(id) = 0}

createRoom(id, hostUserId, hostSocketId) ==
  [id |-> id, hostUserId |-> hostUserId, hostSocketId |-> hostSocketId,
   clientUserId |-> NoUser, clientSocketId |-> NoSocket,
   controlActive |-> FALSE, cameraActive |-> FALSE]

\* getRoom: index of the room in the registry, 0 when absent
getRoom(id) == RoomIndex(id)

\* first room of rs, in insertion order, that has the user as host or client
findRoomByUserIdIn(rs, userId) ==
  LET hits == {i \in 1..Len(rs) :
                 rs[i].hostUserId = userId \/ rs[i].clientUserId = userId}
  IN IF hits = {} THEN [index |-> 0, role |-> "none"]
     ELSE LET i == CHOOSE j \in hits : \A k \in hits : j <= k
          IN [index |-> i,
              role |-> IF rs[i].hostUserId = userId THEN "host" ELSE "client"]

findRoomByUserId(userId) == findRoomByUserIdIn(rooms, userId)

findRoomBySocketId(socketId) ==
  LET hits == {i \in 1..Len(rooms) :
                 rooms[i].hostSocketId = socketId \/ rooms[i].clientSocketId = socketId}
  IN IF hits = {} THEN [index |-> 0, role |-> "none"]
     ELSE LET i == CHOOSE j \in hits : \A k \in hits : j <= k
          IN [index |-> i,
              role |-> IF rooms[i].hostSocketId = socketId THEN "host" ELSE "client"]

attachSocket(room, role, socketId) ==
  IF role = "host" THEN [room EXCEPT !.hostSocketId = socketId]
  ELSE [room EXCEPT !.clientSocketId = socketId]

\* a store that forgets the owner of a room whose host connection goes
clearSocketForgetHost(room, role) ==
  LET r == IF role = "host" THEN [room EXCEPT !.hostSocketId = NoSocket, !.hostUserId = NoUser]
           ELSE [room EXCEPT !.clientSocketId = NoSocket]
  IN [r EXCEPT !.controlActive = FALSE, !.cameraActive = FALSE]

clearSocket(room, role) ==
  LET r == IF role = "host" THEN [room EXCEPT !.hostSocketId = NoSocket]
           ELSE [room EXCEPT !.clientSocketId = NoSocket]
  IN [r EXCEPT !.controlActive = FALSE, !.cameraActive = FALSE]

canUserControlRoom(room, userId) == room.hostUserId = userId

\* a gateway that lets any identity act as the client
canUserActAsClientAnyone(room, userId) == TRUE

canUserActAsClient(room, userId) == room.clientUserId = userId

(***************************************************************************)
(* socket.js helpers                                                       *)
(***************************************************************************)
isRoomId(v) == RoomIdPattern(v)

isUserId(v) == v \in AllUsers

isRole(v) == v \in Roles

isWebRtcSignal(sig) ==
  IF sig.type \in {"offer", "answer"} THEN sig.sdp # ""
  ELSE sig.type = "ice-candidate"

emitError(s, message) == <<[to |-> s, event |-> "room:error", message |-> message]>>

snapshotRoom(room) == room

getUserId(s) == sockets[s].userId

\* a gateway that takes the identity alone as proof (mutation of isCurrentSocketForRole)
isCurrentSocketForRoleAnySocket(room, role, socketId) == TRUE

isCurrentSocketForRole(room, role, socketId) ==
  IF role = "host" THEN room.hostSocketId = socketId
  ELSE room.clientSocketId = socketId

roleOfUserInRoom(room, userId) ==
  IF room.hostUserId = userId THEN "host"
  ELSE IF room.clientUserId = userId THEN "client"
  ELSE "none"

\* a relay that picks the sender's own side (mutation of roomPeerSocketId)
roomPeerSocketIdOwnSide(room, role) ==
  IF role = "host" THEN room.hostSocketId ELSE room.clientSocketId

roomPeerSocketId(room, role) ==
  LET peerSocketId == IF role = "host" THEN room.clientSocketId ELSE room.hostSocketId
      selfSocketId == IF role = "host" THEN room.hostSocketId ELSE room.clientSocketId
  IN IF peerSocketId = NoSocket \/ peerSocketId = selfSocketId THEN NoSocket
     ELSE peerSocketId

normalizeRoomState(room) ==
  LET r1 == IF room.clientUserId # NoUser /\ room.clientUserId = room.hostUserId
            THEN [room EXCEPT !.clientUserId = NoUser] ELSE room
      r2 == IF r1.clientSocketId # NoSocket /\ r1.hostSocketId # NoSocket
               /\ r1.clientSocketId = r1.hostSocketId
            THEN [r1 EXCEPT !.clientSocketId = NoSocket] ELSE r1
      r3 == IF r2.clientUserId = NoUser /\ r2.clientSocketId # NoSocket
            THEN [r2 EXCEPT !.clientSocketId = NoSocket] ELSE r2
  IN IF r3 # room
     THEN [r3 EXCEPT !.controlActive = FALSE, !.cameraActive = FALSE]
     ELSE r3

\* io.sockets.sockets.get(socketId): only live sockets are in the table
socketUserIdBySocketId(socketId) ==
  IF socketId \in Sockets /\ sockets[socketId].status = "live"
  THEN sockets[socketId].userId ELSE NoUser

emitRoomUpdate(room) ==
  (IF room.hostSocketId # NoSocket
   THEN <<[to |-> room.hostSocketId, event |-> "room:update", room |-> snapshotRoom(room)]>>
   ELSE <<>>)
  \o
  (IF room.clientSocketId # NoSocket
   THEN <<[to |-> room.clientSocketId, event |-> "room:update", room |-> snapshotRoom(room)]>>
   ELSE <<>>)

\* restoreSession: the room after the restore and the messages it emits
restoreSession(s, userId, room0, role) ==
  LET room == normalizeRoomState(attachSocket(normalizeRoomState(room0), role, s))
      peerSocketId == roomPeerSocketId(room, role)
  IN [room |-> room,
      out |-> <<[to |-> s, event |-> "session:restored",
                 room |-> snapshotRoom(room), role |-> role]>>
              \o (IF peerSocketId # NoSocket
                  THEN <<[to |-> peerSocketId, event |-> "peer:reconnected",
                          roomId |-> room.id, role |-> role, userId |-> userId]>>
                  ELSE <<>>)
              \o emitRoomUpdate(room)]


ensureIdentified(s) == getUserId(s) # NoUser

SetRoom(i, room) == [rooms EXCEPT ![i] = room]

(***************************************************************************)
(* The handlers.  Each <name>Result is what the handler does to the        *)
(* registry (rooms), to the socket table (userId of s) and what it emits.  *)
(***************************************************************************)
Result(rs, uid, out) == [rooms |-> rs, userId |-> uid, out |-> out]

Reject(s, message) == Result(rooms, getUserId(s), emitError(s, message))

\* identify (socket.js:185-206)
identifyResult(s, p) ==
  IF ~isUserId(p.userId) THEN Reject(s, "Invalid identify payload.")
  ELSE
    LET match == findRoomByUserId(p.userId)
    IN IF match.index = 0
       THEN Result(rooms, p.userId,
                   <<[to |-> s, event |-> "identify:ok", userId |-> p.userId,
                      restored |-> FALSE]>>)
       ELSE
         LET r == restoreSession(s, p.userId, rooms[match.index], match.role)
         IN Result(SetRoom(match.index, r.room), p.userId,
                   r.out \o <<[to |-> s, event |-> "identify:ok", userId |-> p.userId,
                               restored |-> TRUE, role |-> match.role,
                               room |-> snapshotRoom(r.room)]>>)

\* room:create (socket.js:207-226); id is the code ensureRoomId returns
roomCreateResult(s, id) ==
  IF ~ensureIdentified(s) THEN Reject(s, "Identify first.")
  ELSE
    LET userId == getUserId(s)
        existing == findRoomByUserId(userId)
    IN IF existing.role = "host"
       THEN LET r == restoreSession(s, userId, rooms[existing.index], "host")
            IN Result(SetRoom(existing.index, r.room), userId,
                      r.out \o <<[to |-> s, event |-> "room:created",
                                  room |-> snapshotRoom(r.room)]>>)
       ELSE IF existing.role = "client"
       THEN Reject(s, "Already joined another room as client.")
       ELSE LET room == createRoom(id, userId, s)
            IN Result(Append(rooms, room), userId,
                      <<[to |-> s, event |-> "room:created", room |-> snapshotRoom(room)]>>
                      \o emitRoomUpdate(room))

\* room:join without the host-identity check (mutation of joinRejection)
joinRejectionNoHostCheck(rs, i, userId) ==
  LET room == rs[i]
      existingRoom == findRoomByUserIdIn(rs, userId)
  IN IF existingRoom.index # 0 /\ rs[existingRoom.index].id # room.id
     THEN "Already attached to another room."
     ELSE IF room.clientUserId # NoUser /\ room.clientUserId # userId
             /\ room.clientSocketId # NoSocket
     THEN "Room already has a different client."
     ELSE ""

\* room:join without the other-room check (mutation of joinRejection)
joinRejectionNoOtherRoomCheck(rs, i, userId) ==
  LET room == rs[i]
  IN IF room.hostUserId = userId
     THEN "Host cannot join as client."
     ELSE IF room.clientUserId # NoUser /\ room.clientUserId # userId
             /\ room.clientSocketId # NoSocket
     THEN "Room already has a different client."
     ELSE ""

\* the authorization checks of room:join (socket.js:242-256) on the registry
\* rs as it is after normalizeRoomState(room): the error message, "" if none
joinRejection(rs, i, userId) ==
  LET room == rs[i]
      existingRoom == findRoomByUserIdIn(rs, userId)
  IN IF existingRoom.index # 0 /\ rs[existingRoom.index].id # room.id
     THEN "Already attached to another room."
     ELSE IF room.hostUserId = userId
     THEN "Host cannot join as client."
     ELSE IF room.clientUserId # NoUser /\ room.clientUserId # userId
             /\ room.clientSocketId # NoSocket
     THEN "Room already has a different client."
     ELSE ""

\* binding that forgets the identity (mutation of joinBind)
joinBindSocketOnly(room, userId, s) ==
  [room EXCEPT !.clientSocketId = s, !.controlActive = FALSE, !.cameraActive = FALSE]

\* the binding of room:join (socket.js:257-260)
joinBind(room, userId, s) ==
  [room EXCEPT !.clientUserId = userId, !.clientSocketId = s,
               !.controlActive = FALSE, !.cameraActive = FALSE]

\* a join the host is not told about
clientJoinedNoticeNone(room, userId) == <<>>

\* the room:client-joined notice of room:join (socket.js:263-268)
clientJoinedNotice(room, userId) ==
  IF room.hostSocketId # NoSocket
  THEN <<[to |-> room.hostSocketId, event |-> "room:client-joined",
          room |-> snapshotRoom(room), clientUserId |-> userId]>>
  ELSE <<>>

\* room:join (socket.js:227-270)
roomJoinResult(s, p) ==
  IF ~isRoomId(p.roomId) THEN Reject(s, "Invalid room join payload.")
  ELSE IF ~ensureIdentified(s) THEN Reject(s, "Identify first.")
  ELSE IF getRoom(p.roomId) = 0 THEN Reject(s, "Room not found.")
  ELSE
    LET i == getRoom(p.roomId)
        userId == getUserId(s)
        rs == SetRoom(i, normalizeRoomState(rooms[i]))
        why == joinRejection(rs, i, userId)
    IN IF why # "" THEN Result(rs, userId, emitError(s, why))
       ELSE
         LET room == joinBind(rs[i], userId, s)
         IN Result(SetRoom(i, room), userId,
                   <<[to |-> s, event |-> "room:joined", room |-> snapshotRoom(room)]>>
                   \o clientJoinedNotice(room, userId)
                   \o emitRoomUpdate(room))

\* rejoin-room (socket.js:271-310)
rejoinRoomResult(s, p) ==
  IF ~(isRoomId(p.roomId) /\ isRole(p.role)) THEN Reject(s, "Invalid rejoin payload.")
  ELSE IF ~ensureIdentified(s) THEN Reject(s, "Identify first.")
  ELSE IF getRoom(p.roomId) = 0 THEN Reject(s, "Room not found for rejoin.")
  ELSE
    LET i == getRoom(p.roomId)
        userId == getUserId(s)
        room0 == normalizeRoomState(rooms[i])
        rs0 == SetRoom(i, room0)
    IN IF p.role = "host"
       THEN IF room0.hostUserId # userId
            THEN Result(rs0, userId, emitError(s, "Only host owner can rejoin as host."))
            ELSE LET r == restoreSession(s, userId, room0, "host")
                 IN Result(SetRoom(i, r.room), userId,
                           r.out \o <<[to |-> s, event |-> "room:rejoined",
                                       room |-> snapshotRoom(r.room), role |-> p.role]>>)
       ELSE IF room0.hostUserId = userId
            THEN Result(rs0, userId, emitError(s, "Host cannot rejoin as client."))
            ELSE
              LET room1 == IF room0.clientUserId = NoUser
                           THEN [room0 EXCEPT !.clientUserId = userId] ELSE room0
              IN IF room1.clientUserId # userId
                 THEN Result(SetRoom(i, room1), userId,
                             emitError(s, "Only assigned client can rejoin as client."))
                 ELSE LET r == restoreSession(s, userId, room1, "client")
                      IN Result(SetRoom(i, r.room), userId,
                                r.out \o <<[to |-> s, event |-> "room:rejoined",
                                            room |-> snapshotRoom(r.room), role |-> p.role]>>)

\* webrtc:signal (socket.js:311-344)
webrtcSignalResult(s, p) ==
  IF ~(isRoomId(p.roomId) /\ isWebRtcSignal(p.signal))
  THEN Reject(s, "Invalid WebRTC signal payload.")
  ELSE IF ~ensureIdentified(s) THEN Reject(s, "Identify first.")
  ELSE IF getRoom(p.roomId) = 0 THEN Reject(s, "Room not found for signaling.")
  ELSE
    LET i == getRoom(p.roomId)
        userId == getUserId(s)
        room == normalizeRoomState(rooms[i])
        rs == SetRoom(i, room)
        role == roleOfUserInRoom(room, userId)
        targetSocketId == roomPeerSocketId(room, role)
    IN IF role = "none"
       THEN Result(rs, userId, emitError(s, "Unauthorized signaling attempt."))
       ELSE IF ~isCurrentSocketForRole(room, role, s)
       THEN Result(rs, userId, emitError(s, "Stale socket signaling rejected."))
       ELSE IF targetSocketId = NoSocket
       THEN Result(rs, userId, <<>>)
       ELSE Result(rs, userId,
                   <<[to |-> targetSocketId, event |-> "webrtc:signal",
                      roomId |-> room.id, fromUserId |-> userId, signal |-> p.signal]>>)



\* the control flag stored as the host sent it
storedControlActiveAsSent(room, active) == active

\* payload.active && Boolean(room.clientSocketId) (socket.js:364)
storedControlActive(room, active) == active /\ room.clientSocketId # NoSocket

\* control:status (socket.js:345-366)
controlStatusResult(s, p) ==
  IF ~(isRoomId(p.roomId) /\ p.active \in BOOLEAN)
  THEN Reject(s, "Invalid control status payload.")
  ELSE IF ~ensureIdentified(s) THEN Reject(s, "Identify first.")
  ELSE IF getRoom(p.roomId) = 0 THEN Reject(s, "Room not found for control update.")
  ELSE
    LET i == getRoom(p.roomId)
        userId == getUserId(s)
        room0 == normalizeRoomState(rooms[i])
    IN IF ~canUserControlRoom(room0, userId) \/ room0.hostSocketId # s
       THEN Result(SetRoom(i, room0), userId,
                   emitError(s, "Only active host can update control state."))
       ELSE LET room == [room0 EXCEPT !.controlActive = storedControlActive(room0, p.active)]
            IN Result(SetRoom(i, room), userId, emitRoomUpdate(room))

\* a gateway that trusts the stored client reference
cameraTargetInvalidNever(room, targetUserId) == FALSE

\* the validation of the camera:request target (socket.js:391-394)
cameraTargetInvalid(room, targetUserId) ==
  \/ room.clientUserId = NoUser
  \/ targetUserId = NoUser
  \/ targetUserId # room.clientUserId
  \/ targetUserId = room.hostUserId

\* camera:request (socket.js:367-409)
cameraRequestResult(s, p) ==
  IF ~isRoomId(p.roomId) THEN Reject(s, "Invalid camera request payload.")
  ELSE IF ~ensureIdentified(s) THEN Reject(s, "Identify first.")
  ELSE IF getRoom(p.roomId) = 0 THEN Reject(s, "Room not found for camera request.")
  ELSE
    LET i == getRoom(p.roomId)
        userId == getUserId(s)
        room0 == normalizeRoomState(rooms[i])
        targetUserId == socketUserIdBySocketId(room0.clientSocketId)
    IN IF ~canUserControlRoom(room0, userId) \/ room0.hostSocketId # s
       THEN Result(SetRoom(i, room0), userId, emitError(s, "Only host can request camera."))
       ELSE IF room0.clientSocketId = NoSocket
       THEN Result(SetRoom(i, room0), userId,
                   emitError(s, "No connected client available."))
       ELSE IF cameraTargetInvalid(room0, targetUserId)
       THEN LET r1 == [room0 EXCEPT !.clientSocketId = NoSocket]
                r2 == IF r1.clientUserId = r1.hostUserId
                      THEN [r1 EXCEPT !.clientUserId = NoUser] ELSE r1
                room == [r2 EXCEPT !.controlActive = FALSE, !.cameraActive = FALSE]
            IN Result(SetRoom(i, room), userId,
                      emitRoomUpdate(room)
                      \o emitError(s, "No valid connected client available."))
       ELSE Result(SetRoom(i, room0), userId,
                   <<[to |-> room0.clientSocketId, event |-> "camera:request",
                      roomId |-> room0.id, hostUserId |-> room0.hostUserId]>>)

\* camera:permission (socket.js:410-439)
cameraPermissionResult(s, p) ==
  IF ~(isRoomId(p.roomId) /\ p.granted \in BOOLEAN)
  THEN Reject(s, "Invalid camera permission payload.")
  ELSE IF ~ensureIdentified(s) THEN Reject(s, "Identify first.")
  ELSE IF getRoom(p.roomId) = 0 THEN Reject(s, "Room not found for camera permission.")
  ELSE
    LET i == getRoom(p.roomId)
        userId == getUserId(s)
        room0 == normalizeRoomState(rooms[i])
    IN IF ~canUserActAsClient(room0, userId) \/ room0.clientSocketId # s
       THEN Result(SetRoom(i, room0), userId,
                   emitError(s, "Only active client can report camera permission."))
       ELSE LET room == IF ~p.granted THEN [room0 EXCEPT !.cameraActive = FALSE]
                        ELSE room0
            IN Result(SetRoom(i, room), userId,
                      (IF room.hostSocketId # NoSocket
                       THEN <<[to |-> room.hostSocketId, event |-> "camera:permission",
                               roomId |-> room.id, granted |-> p.granted]>>
                       ELSE <<>>)
                      \o emitRoomUpdate(room))

\* camera:state (socket.js:440-461)
cameraStateResult(s, p) ==
  IF ~(isRoomId(p.roomId) /\ p.active \in BOOLEAN)
  THEN Reject(s, "Invalid camera state payload.")
  ELSE IF ~ensureIdentified(s) THEN Reject(s, "Identify first.")
  ELSE IF getRoom(p.roomId) = 0 THEN Reject(s, "Room not found for camera state.")
  ELSE
    LET i == getRoom(p.roomId)
        userId == getUserId(s)
        room0 == normalizeRoomState(rooms[i])
    IN IF ~canUserActAsClient(room0, userId) \/ room0.clientSocketId # s
       THEN Result(SetRoom(i, room0), userId,
                   emitError(s, "Only active client can update camera state."))
       ELSE LET room == [room0 EXCEPT !.cameraActive = p.active]
            IN Result(SetRoom(i, room), userId, emitRoomUpdate(room))

\* media:kind (socket.js:462-488)
mediaKindResult(s, p) ==
  IF ~(isRoomId(p.roomId) /\ p.streamId # "" /\ p.kind \in {"screen", "camera"})
  THEN Reject(s, "Invalid media metadata payload.")
  ELSE IF ~ensureIdentified(s) THEN Reject(s, "Identify first.")
  ELSE IF getRoom(p.roomId) = 0 THEN Reject(s, "Room not found for media metadata.")
  ELSE
    LET i == getRoom(p.roomId)
        userId == getUserId(s)
        room == normalizeRoomState(rooms[i])
    IN IF ~canUserActAsClient(room, userId) \/ room.clientSocketId # s
       THEN Result(SetRoom(i, room), userId,
                   emitError(s, "Only active client can publish media metadata."))
       ELSE Result(SetRoom(i, room), userId,
                   IF room.hostSocketId # NoSocket
                   THEN <<[to |-> room.hostSocketId, event |-> "media:kind",
                           roomId |-> room.id, streamId |-> p.streamId, kind |-> p.kind]>>
                   ELSE <<>>)

\* removeSocket (memoryStore.js:73-80) followed by the rest of the
\* disconnect handler (socket.js:489-504)
disconnectResult(s) ==
  LET detached == findRoomBySocketId(s)
  IN IF detached.index = 0 THEN Result(rooms, getUserId(s), <<>>)
     ELSE
       LET room == clearSocket(rooms[detached.index], detached.role)
           peerSocketId == IF detached.role = "host" THEN room.clientSocketId
                           ELSE room.hostSocketId
       IN Result(SetRoom(detached.index, room), getUserId(s),
                 (IF peerSocketId # NoSocket
                  THEN <<[to |-> peerSocketId, event |-> "peer:disconnected",
                          roomId |-> room.id, role |-> detached.role]>>
                  ELSE <<>>)
                 \o emitRoomUpdate(room))


(***************************************************************************)
(* The gateway as a state machine: one action per handled event.  The      *)
(* messages a handler emits are the out field of its result.               *)
(***************************************************************************)
Live(s) == sockets[s].status = "live"

Handle(s, res) ==
  /\ rooms' = res.rooms
  /\ sockets' = [sockets EXCEPT ![s].userId = res.userId]
  /\ UNCHANGED <<rtc, link>>

\* io.on("connection") (socket.js:183-184); socket ids are handed out in order
Connect(s) ==
  /\ sockets[s].status = "unborn"
  /\ \A q \in Sockets : q < s => sockets[q].status # "unborn"
  /\ sockets' = [sockets EXCEPT ![s].status = "live"]
  /\ UNCHANGED <<rooms, rtc, link>>

Identify(s, userId) ==
  /\ Live(s)
  /\ Handle(s, identifyResult(s, [userId |-> userId]))

RoomCreate(s) ==
  /\ Live(s)
  /\ \E id \in ensureRoomId :
       LET res == roomCreateResult(s, id)
       IN /\ Len(res.rooms) <= MaxRooms
          /\ Handle(s, res)

RoomJoin(s, roomId) ==
  /\ Live(s)
  /\ Handle(s, roomJoinResult(s, [roomId |-> roomId]))

RejoinRoom(s, roomId, role) ==
  /\ Live(s)
  /\ Handle(s, rejoinRoomResult(s, [roomId |-> roomId, role |-> role]))

WebrtcSignal(s, roomId, signal) ==
  /\ Live(s)
  /\ Handle(s, webrtcSignalResult(s, [roomId |-> roomId, signal |-> signal]))

ControlStatus(s, roomId, active) ==
  /\ Live(s)
  /\ Handle(s, controlStatusResult(s, [roomId |-> roomId, active |-> active]))

CameraRequest(s, roomId) ==
  /\ Live(s)
  /\ Handle(s, cameraRequestResult(s, [roomId |-> roomId]))

CameraPermission(s, roomId, granted) ==
  /\ Live(s)
  /\ Handle(s, cameraPermissionResult(s, [roomId |-> roomId, granted |-> granted]))

CameraState(s, roomId, active) ==
  /\ Live(s)
  /\ Handle(s, cameraStateResult(s, [roomId |-> roomId, active |-> active]))

MediaKind(s, roomId, streamId, kind) ==
  /\ Live(s)
  /\ Handle(s, mediaKindResult(s, [roomId |-> roomId, streamId |-> streamId,
                                   kind |-> kind]))

\* the socket leaves io.sockets.sockets and its data is gone
Disconnect(s) ==
  /\ Live(s)
  /\ rooms' = disconnectResult(s).rooms
  /\ sockets' = [sockets EXCEPT ![s] = [status |-> "closed", userId |-> NoUser]]
  /\ UNCHANGED <<rtc, link>>

GwInit ==
  /\ rooms = <<>>
  /\ sockets = [s \in Sockets |-> [status |-> "unborn", userId |-> NoUser]]

\* the room ids and stream ids the events of the specifications carry
EventRoomIds == RoomIds \cup {InvalidRoomId}
EventSignals == {[type |-> "offer", sdp |-> "v=0 a"], InvalidSignal}

(***************************************************************************)
(* Part II: WebRtcManager (src/unnamed/part_001:232-725).                  *)
(*                                                                         *)
(* rtc holds the manager's fields under their source names, the            *)
(* RTCPeerConnections it has created (conns, addressed by creation order)  *)
(* and the async method executions that are suspended at an await (tasks). *)
(* A synchronous stretch of code, from an entry point or a settled await   *)
(* up to the next await on a browser operation, is one step.  An operation *)
(* pending on a connection settles only while the connection is open: a    *)
(* promise that is pending when RTCPeerConnection.close() runs is never    *)
(* settled, so its execution stays suspended for good (at = "never").      *)
(*                                                                         *)
(* The sender lists, the stream-kind maps and the data-channel handlers    *)
(* are not part of this state.  Fields that record history rather than     *)
(* program state: conns[c].buffered, conns[c].flushed,                     *)
(* conns[c].offerPending, tasks[i].during and lastRound.  A closed         *)
(* connection keeps no history.                                            *)
(***************************************************************************)
\* RTCPeerConnections one run creates
MaxConns == 2
\* async executions suspended at one time
MaxTasks == 2
\* candidates one connection buffers
MaxBuffered == 2
\* the count of requests during a round saturates here
MaxDuring == 2

NoConn == 0
NoStream == "none"
EndpointRoles == {"none", "host", "client"}

Task(op, at, conn) ==
  [op |-> op, at |-> at, conn |-> conn, signal |-> "none", queue |-> <<>>,
   caller |-> "none", during |-> 0]

RemoveAt(seq, i) == SubSeq(seq, 1, i - 1) \o SubSeq(seq, i + 1, Len(seq))

\* no await of handleSignal rejected in the last step
NoError == "none"

NoRound ==
  [completed |-> FALSE, during |-> 0, followups |-> 0, offer |-> FALSE, raised |-> NoError]

NewConn ==
  [closed |-> FALSE, remoteDescription |-> FALSE, buffered |-> <<>>, flushed |-> <<>>,
   offerPending |-> FALSE, attached |-> {}]

ClosedConn ==
  [closed |-> TRUE, remoteDescription |-> FALSE, buffered |-> <<>>, flushed |-> <<>>,
   offerPending |-> FALSE, attached |-> {}]

\* the executions inside the offer-producing section of negotiateAsClient
Rounds(st) == {i \in 1..Len(st.tasks) : st.tasks[i].op = "negotiateAsClient"}

\* those whose connection has not been closed under them
LiveRounds(st) == {i \in Rounds(st) : ~st.conns[st.tasks[i].conn].closed}

\* history: a request to negotiate arrives while rounds are in flight
noteRequest(st) ==
  [st EXCEPT !.tasks =
     [i \in 1..Len(st.tasks) |->
        IF i \in LiveRounds(st) /\ st.tasks[i].during < MaxDuring
        THEN [st.tasks[i] EXCEPT !.during = @ + 1]
        ELSE st.tasks[i]]]

\* the local stream of one kind is stopped or replaced: an execution of
\* caller that captured it can attach listeners to stopped tracks only
forgetStream(st, caller) ==
  [st EXCEPT !.tasks =
     [i \in 1..Len(st.tasks) |->
        IF st.tasks[i].caller = caller
        THEN [st.tasks[i] EXCEPT !.caller = "none"] ELSE st.tasks[i]]]

\* the local streams the manager holds, by kind
heldStreams(st) ==
  {kind \in {"screen"} : st.localScreenStream # NoStream}
    \cup {kind \in {"camera"} : st.localCameraStream # NoStream}

\* connection.addTrack for the tracks of the local stream of the kind
addTracks(st, kind) ==
  IF st.peerConnection = NoConn THEN st
  ELSE [st EXCEPT !.conns[st.peerConnection].attached = @ \cup {kind}]

\* removeSenders: peerConnection.removeTrack for the senders of the kind
removeSenders(st, kind) ==
  IF st.peerConnection = NoConn THEN st
  ELSE [st EXCEPT !.conns[st.peerConnection].attached = @ \ {kind}]

\* kindCalls[kind] counts, up to MaxKindCalls, the calls of
\* options.onLocalStreamKind with the id of the stream of the kind that the
\* manager holds now
MaxKindCalls == 2
NoKindCalls == [screen |-> 0, camera |-> 0]

\* a manager that announces no stream
onLocalStreamKindNever(st, kind) == st

\* history: options.onLocalStreamKind(stream.id, kind) for the held stream
onLocalStreamKind(st, kind) ==
  [st EXCEPT !.kindCalls[kind] = IF @ < MaxKindCalls THEN @ + 1 ELSE @]

\* history: the manager holds another stream of the kind, or none
newStreamId(st, kind) == [st EXCEPT !.kindCalls[kind] = 0]

\* a rebuild that leaves the held streams off the new connection
addLocalTracksToConnectionNone(st) == st

\* addLocalTracksToConnection, for the current connection
addLocalTracksToConnection(st) ==
  IF st.peerConnection = NoConn THEN st
  ELSE LET s1 == [st EXCEPT !.conns[st.peerConnection].attached = @ \cup heldStreams(st)]
           s2 == IF s1.localScreenStream # NoStream
                 THEN onLocalStreamKind(s1, "screen") ELSE s1
       IN IF s2.localCameraStream # NoStream THEN onLocalStreamKind(s2, "camera") ELSE s2

ensurePeerConnection(st) ==
  IF st.peerConnection # NoConn THEN st
  ELSE LET id == Len(st.conns) + 1 IN
    [st EXCEPT
       !.conns = Append(@, NewConn),
       !.peerConnection = id,
       !.controlChannel = IF st.role = "client" THEN id ELSE @]

\* peerConnection.close(): what is pending on the connection never settles
closeConn(st) ==
  IF st.peerConnection = NoConn THEN st
  ELSE [st EXCEPT
          !.conns[st.peerConnection] = ClosedConn,
          !.tasks = [i \in 1..Len(st.tasks) |->
                       IF st.tasks[i].conn = st.peerConnection
                       THEN Task(st.tasks[i].op, "never", st.tasks[i].conn)
                       ELSE st.tasks[i]],
          !.peerConnection = NoConn]

\* closePeerConnection that leaves the candidate buffer as it is
closePeerConnectionKeepBuffer(st, preserveLocalStreams) ==
  LET s1 == [closeConn(st) EXCEPT
               !.controlChannel = NoConn,
               !.isNegotiating = FALSE,
               !.hasQueuedRenegotiation = FALSE]
  IN IF preserveLocalStreams THEN s1
     ELSE [forgetStream(forgetStream(s1, "startScreenShare"), "startCameraStream")
             EXCEPT !.screenListener = FALSE, !.cameraListener = FALSE]

closePeerConnection(st, preserveLocalStreams) ==
  LET s1 == [closeConn(st) EXCEPT
               !.controlChannel = NoConn,
               !.pendingIceCandidates = <<>>,
               !.isNegotiating = FALSE,
               !.hasQueuedRenegotiation = FALSE]
  IN IF preserveLocalStreams THEN s1
     \* stopStream: a stopped track fires no "ended" event
     ELSE [forgetStream(forgetStream(s1, "startScreenShare"), "startCameraStream")
             EXCEPT !.screenListener = FALSE, !.cameraListener = FALSE]

\* the caller of negotiateAsClient resumes after its await: startScreenShare
\* and startCameraStream attach "ended" listeners to the tracks of the stream
\* they captured
afterNegotiate(st, caller) ==
  IF caller = "startScreenShare" THEN [st EXCEPT !.screenListener = TRUE]
  ELSE IF caller = "startCameraStream" THEN [st EXCEPT !.cameraListener = TRUE]
  ELSE st

\* negotiateAsClient up to its first await (createOffer)
negotiateAsClient(st, caller) ==
  IF st.role # "client" THEN afterNegotiate(st, caller)
  ELSE LET s1 == noteRequest(ensurePeerConnection(st)) IN
    IF s1.isNegotiating
      THEN afterNegotiate([s1 EXCEPT !.hasQueuedRenegotiation = TRUE], caller)
    ELSE [s1 EXCEPT
            !.isNegotiating = TRUE,
            !.tasks = Append(@, [Task("negotiateAsClient", "createOffer", s1.peerConnection)
                                   EXCEPT !.caller = caller])]

\* history: options.onSignal is called with an offer made on connection c
noteOffer(st, c, ok) ==
  IF ok THEN [st EXCEPT !.conns[c].offerPending = TRUE] ELSE st

\* history: an answer has been applied to connection c
noteAnswer(st, c, signal) ==
  IF signal = "answer" THEN [st EXCEPT !.conns[c].offerPending = FALSE] ELSE st

\* the finally block without the follow-up round
negotiateFinallyNoFollowUp(st, i, ok) ==
  LET t == st.tasks[i]
      s1 == [noteOffer(st, t.conn, ok) EXCEPT
               !.tasks = RemoveAt(@, i), !.isNegotiating = FALSE,
               !.hasQueuedRenegotiation = FALSE]
      s3 == IF ok THEN afterNegotiate(s1, t.caller) ELSE s1
  IN [s3 EXCEPT !.lastRound = [completed |-> TRUE, during |-> t.during, followups |-> 0,
                               offer |-> ok, raised |-> NoError]]

\* the finally block of negotiateAsClient, run by the round tasks[i]; ok tells
\* whether the try block ended without a throw
negotiateFinally(st, i, ok) ==
  LET t == st.tasks[i]
      s1 == [noteOffer(st, t.conn, ok) EXCEPT
               !.tasks = RemoveAt(@, i), !.isNegotiating = FALSE]
      s2 == IF s1.hasQueuedRenegotiation
            THEN negotiateAsClient([s1 EXCEPT !.hasQueuedRenegotiation = FALSE], "none")
            ELSE s1
      s3 == IF ok THEN afterNegotiate(s2, t.caller) ELSE s2
  IN [s3 EXCEPT !.lastRound =
        [completed |-> TRUE, during |-> t.during,
         followups |-> Cardinality(Rounds(s2)) - Cardinality(Rounds(s1)),
         offer |-> ok, raised |-> NoError]]

startScreenShare(st) ==
  IF st.role # "client" THEN st
  ELSE [st EXCEPT !.tasks = Append(@, Task("startScreenShare", "getDisplayMedia", NoConn))]

\* startScreenShare after getDisplayMedia has produced a stream
screenCaptured(st, i) ==
  LET s1 == ensurePeerConnection([st EXCEPT !.tasks = RemoveAt(@, i)])
      \* replaceOutgoingScreenStream
      s2 == [forgetStream(s1, "startScreenShare") EXCEPT
               !.localScreenStream = "display-media", !.screenListener = FALSE]
  IN negotiateAsClient(
       onLocalStreamKind(newStreamId(addTracks(s2, "screen"), "screen"), "screen"),
       "startScreenShare")

stopScreenShare(st) ==
  LET s1 == [newStreamId(forgetStream(removeSenders(st, "screen"), "startScreenShare"),
                         "screen") EXCEPT
               !.localScreenStream = NoStream, !.screenListener = FALSE] IN
  IF s1.peerConnection # NoConn /\ s1.role = "client"
  THEN negotiateAsClient(s1, "none") ELSE s1

startCameraStream(st) ==
  IF st.role # "client" THEN st
  ELSE [st EXCEPT !.tasks = Append(@, Task("startCameraStream", "getUserMedia", NoConn))]

\* startCameraStream after getUserMedia has produced a stream
cameraCaptured(st, i) ==
  LET s1 == ensurePeerConnection([st EXCEPT !.tasks = RemoveAt(@, i)])
      \* replaceOutgoingCameraStream
      s2 == [forgetStream(s1, "startCameraStream") EXCEPT
               !.localCameraStream = "user-media", !.cameraListener = FALSE]
  IN negotiateAsClient(
       onLocalStreamKind(newStreamId(addTracks(s2, "camera"), "camera"), "camera"),
       "startCameraStream")

stopCameraStream(st) ==
  LET s1 == [newStreamId(forgetStream(removeSenders(st, "camera"), "startCameraStream"),
                         "camera") EXCEPT
               !.localCameraStream = NoStream, !.cameraListener = FALSE] IN
  IF s1.peerConnection # NoConn /\ s1.role = "client"
  THEN negotiateAsClient(s1, "none") ELSE s1

rebuildAfterReconnect(st) ==
  LET s1 == closePeerConnection(st, TRUE) IN
  IF s1.role = "none" THEN s1
  ELSE LET s2 == ensurePeerConnection(s1) IN
    IF s2.role # "client" THEN s2
    ELSE LET s3 == addLocalTracksToConnection(s2) IN
      IF s3.localScreenStream # NoStream \/ s3.localCameraStream # NoStream
      THEN negotiateAsClient(s3, "none")
      ELSE s3

(* remote media (part_001:300-308, 459-464, 494-505, 597-603) *)
\* the ids of the streams the peer sends, and the purpose the peer gives each
RemoteStreams == {"stream-1", "stream-2"}
StreamKinds == {"screen", "camera"}
\* the purpose the peer announces for each of its streams
RemotePurpose == [s \in RemoteStreams |-> IF s = "stream-1" THEN "screen" ELSE "camera"]
NoKind == "none"

\* streamKinds and pendingRemoteStreams as the constructor leaves them;
\* remoteScreenStream and remoteCameraStream are the last arguments of
\* options.onRemoteScreenStream and options.onRemoteCameraStream; arrived
\* and delivered are history since the last clearRemoteMedia: the streams
\* ontrack has fired for, and the callbacks each stream has been passed to
NoRemoteMedia ==
  [streamKinds |-> [s \in RemoteStreams |-> NoKind],
   pendingRemoteStreams |-> {},
   remoteScreenStream |-> NoStream,
   remoteCameraStream |-> NoStream,
   arrived |-> {},
   delivered |-> [s \in RemoteStreams |-> {}]]

\* every stream goes to the camera callback
applyRemoteStreamAlwaysCamera(st, kind, stream) ==
  [st EXCEPT !.remoteCameraStream = stream, !.delivered[stream] = @ \cup {"camera"}]

applyRemoteStream(st, kind, stream) ==
  IF kind = "screen"
  THEN [st EXCEPT !.remoteScreenStream = stream, !.delivered[stream] = @ \cup {"screen"}]
  ELSE [st EXCEPT !.remoteCameraStream = stream, !.delivered[stream] = @ \cup {"camera"}]

setRemoteStreamKind(st, streamId, kind) ==
  LET s1 == [st EXCEPT !.streamKinds[streamId] = kind] IN
  IF streamId \notin s1.pendingRemoteStreams THEN s1
  ELSE applyRemoteStream([s1 EXCEPT !.pendingRemoteStreams = @ \ {streamId}], kind, streamId)

\* connection.ontrack
ontrack(st, stream) ==
  LET s1 == [st EXCEPT !.arrived = @ \cup {stream}] IN
  IF s1.streamKinds[stream] = NoKind
  THEN [s1 EXCEPT !.pendingRemoteStreams = @ \cup {stream}]
  ELSE applyRemoteStream(s1, s1.streamKinds[stream], stream)

clearRemoteMedia(st) ==
  [st EXCEPT !.streamKinds = NoRemoteMedia.streamKinds,
             !.pendingRemoteStreams = {},
             !.remoteScreenStream = NoStream,
             !.remoteCameraStream = NoStream,
             !.arrived = {},
             !.delivered = NoRemoteMedia.delivered]

\* a teardown that stops and drops the local streams too
clearForPeerDisconnectDropStreams(st) ==
  [clearRemoteMedia(closePeerConnection(st, FALSE)) EXCEPT
     !.localScreenStream = NoStream, !.localCameraStream = NoStream,
     !.kindCalls = NoKindCalls]

clearForPeerDisconnect(st) == clearRemoteMedia(closePeerConnection(st, TRUE))

resetSession(st) ==
  clearRemoteMedia(
    [closePeerConnection(st, FALSE) EXCEPT
       !.pendingIceCandidates = <<>>,
       !.isNegotiating = FALSE,
       !.hasQueuedRenegotiation = FALSE,
       !.localScreenStream = NoStream,
       !.localCameraStream = NoStream,
       !.kindCalls = NoKindCalls])

\* history: flushPendingIceCandidates passes a candidate to addIceCandidate
noteFlushed(st, c, candidate) == [st EXCEPT !.conns[c].flushed = Append(@, candidate)]

\* handleSignal after flushPendingIceCandidates has returned
afterFlush(st, i) ==
  IF st.tasks[i].signal = "offer"
  THEN [st EXCEPT !.tasks[i].at = "createAnswer", !.tasks[i].queue = <<>>]
  ELSE [st EXCEPT !.tasks = RemoveAt(@, i)]

\* flushPendingIceCandidates that leaves the buffer as it is
flushPendingIceCandidatesKeepBuffer(st, i) ==
  LET c == st.tasks[i].conn
      queued == st.pendingIceCandidates
  IN IF ~st.conns[c].remoteDescription \/ queued = <<>> THEN afterFlush(st, i)
     ELSE [noteFlushed(st, c, Head(queued)) EXCEPT
             !.tasks[i].at = "addIceCandidate", !.tasks[i].queue = Tail(queued)]

\* flushPendingIceCandidates up to its first await, entered by the handleSignal
\* execution tasks[i]
flushPendingIceCandidates(st, i) ==
  LET c == st.tasks[i].conn
      queued == st.pendingIceCandidates
      s1 == [st EXCEPT !.pendingIceCandidates = <<>>]
  IN IF ~st.conns[c].remoteDescription THEN afterFlush(st, i)
     ELSE IF queued = <<>> THEN afterFlush(s1, i)
     ELSE [noteFlushed(s1, c, Head(queued)) EXCEPT
             !.tasks[i].at = "addIceCandidate", !.tasks[i].queue = Tail(queued)]

\* the loop of flushPendingIceCandidates after an addIceCandidate has settled
flushNext(st, i) ==
  LET t == st.tasks[i] IN
  IF t.queue = <<>> THEN afterFlush(st, i)
  ELSE [noteFlushed(st, t.conn, Head(t.queue)) EXCEPT !.tasks[i].queue = Tail(t.queue)]

\* handleSignal up to its first await
handleSignal(st, signal) ==
  LET s1 == ensurePeerConnection(st)
      c == s1.peerConnection
  IN IF signal.type \in {"offer", "answer"}
       THEN [s1 EXCEPT !.tasks = Append(@, [Task("handleSignal", "setRemoteDescription", c)
                                              EXCEPT !.signal = signal.type])]
     ELSE IF s1.conns[c].remoteDescription
       THEN [s1 EXCEPT !.tasks = Append(@, [Task("handleSignal", "addIceCandidate", c)
                                              EXCEPT !.signal = signal.type])]
     ELSE [s1 EXCEPT !.pendingIceCandidates = Append(@, signal.candidate),
                     !.conns[c].buffered = Append(@, signal.candidate)]

(* the control channel (part_001:209-231, 525-583) *)
\* a JSON member that is missing or not of the type the check asks for
Absent == "<absent>"
NotFinite == "NaN"

isFiniteNumber(value) == value \notin {Absent, NotFinite}

isInboundControlMessage(payload) ==
  /\ payload.isRecord
  /\ payload.type # Absent
  /\ payload.senderUserId # Absent
  /\ Len(payload.senderUserId) >= 10
  /\ CASE payload.type = "mousemove" ->
            isFiniteNumber(payload.x) /\ isFiniteNumber(payload.y)
       [] payload.type = "click" ->
            /\ isFiniteNumber(payload.x)
            /\ isFiniteNumber(payload.y)
            /\ isFiniteNumber(payload.button)
       [] payload.type = "scroll" ->
            isFiniteNumber(payload.deltaX) /\ isFiniteNumber(payload.deltaY)
       [] payload.type \in {"toggle-camera", "toggle-mic"} -> TRUE
       [] OTHER -> FALSE

\* what an accepted message does, in order
controlEffects(parsed) ==
  IF parsed.type = "scroll" THEN <<[effect |-> "scrollBy", type |-> "scroll"]>>
  ELSE IF parsed.type \in {"toggle-camera", "toggle-mic"}
    THEN <<[effect |-> "onRemoteMediaCommand", type |-> parsed.type]>>
  ELSE IF parsed.type = "mousemove"
    THEN <<[effect |-> "dispatchMouseEvent", type |-> "mousemove"]>>
  ELSE <<[effect |-> "dispatchMouseEvent", type |-> "mousedown"],
         [effect |-> "dispatchMouseEvent", type |-> "mouseup"],
         [effect |-> "dispatchMouseEvent", type |-> "click"]>>

Dropped == [effects |-> <<>>, threw |-> FALSE]

\* handleControlMessage without the comparison of the sender with the host
handleControlMessageAnySender(role, rawData, hostUserId) ==
  IF role # "client" THEN Dropped
  ELSE IF ~rawData.isString THEN Dropped
  ELSE IF ~rawData.parses THEN Dropped
  ELSE IF ~isInboundControlMessage(rawData.value) THEN Dropped
  ELSE [effects |-> controlEffects(rawData.value), threw |-> FALSE]

\* handleControlMessage: role is options.roleProvider(), hostUserId is
\* options.hostUserIdProvider(); JSON.parse throws inside the try block when
\* the text does not parse
handleControlMessage(role, rawData, hostUserId) ==
  IF role # "client" THEN Dropped
  ELSE IF ~rawData.isString THEN Dropped
  ELSE IF ~rawData.parses THEN Dropped
  ELSE IF ~isInboundControlMessage(rawData.value) THEN Dropped
  ELSE IF hostUserId = NoUser \/ rawData.value.senderUserId # hostUserId THEN Dropped
  ELSE [effects |-> controlEffects(rawData.value), threw |-> FALSE]

\* the payloads the control channel carries in the specifications
ControlPayloads ==
  {[isRecord |-> TRUE, type |-> t, senderUserId |-> s,
    x |-> n[1], y |-> "0.5", button |-> n[2], deltaX |-> "12", deltaY |-> n[3]] :
     t \in {"mousemove", "click", "scroll", "toggle-camera", "keypress", Absent},
     s \in {"user-aaaa-1", "user-bbbb-2", "short", Absent},
     n \in {<<"0.25", "0", "-40">>, <<NotFinite, "0", "-40">>,
            <<"0.25", Absent, "-40">>, <<"0.25", "0", Absent>>}}

NotARecord ==
  [isRecord |-> FALSE, type |-> Absent, senderUserId |-> Absent,
   x |-> Absent, y |-> Absent, button |-> Absent, deltaX |-> Absent, deltaY |-> Absent]

\* event.data of the channel's message events: text that parses to a
\* payload, text that parses to something else, text that does not parse,
\* and binary data
ControlFrames ==
  {[isString |-> TRUE, parses |-> TRUE, value |-> p] : p \in ControlPayloads}
    \cup {[isString |-> TRUE, parses |-> TRUE, value |-> NotARecord],
          [isString |-> TRUE, parses |-> FALSE, value |-> NotARecord],
          [isString |-> FALSE, parses |-> FALSE, value |-> NotARecord]}

\* what hostUserIdProvider returns: state.room?.hostUserId ?? null
KnownHosts == {NoUser, "user-aaaa-1"}

RtcInit ==
  rtc = [role |-> "none",
         peerConnection |-> NoConn,
         controlChannel |-> NoConn,
         localScreenStream |-> NoStream,
         localCameraStream |-> NoStream,
         screenListener |-> FALSE,
         cameraListener |-> FALSE,
         pendingIceCandidates |-> <<>>,
         isNegotiating |-> FALSE,
         hasQueuedRenegotiation |-> FALSE,
         conns |-> <<>>,
         tasks |-> <<>>,
         lastRound |-> NoRound,
         streamKinds |-> NoRemoteMedia.streamKinds,
         pendingRemoteStreams |-> NoRemoteMedia.pendingRemoteStreams,
         remoteScreenStream |-> NoRemoteMedia.remoteScreenStream,
         remoteCameraStream |-> NoRemoteMedia.remoteCameraStream,
         arrived |-> NoRemoteMedia.arrived,
         delivered |-> NoRemoteMedia.delivered,
         kindCalls |-> NoKindCalls]

WithinBounds(st) ==
  /\ Len(st.conns) <= MaxConns
  /\ Len(st.tasks) <= MaxTasks
  /\ \A c \in 1..Len(st.conns) : Len(st.conns[c].buffered) <= MaxBuffered

Commit(st) == WithinBounds(st) /\ rtc' = st /\ UNCHANGED <<rooms, sockets, link>>

\* lastRound tells of the round that ended in the last step
Step(st) == Commit([st EXCEPT !.lastRound = NoRound])

TaskIdx == 1..Len(rtc.tasks)

\* an operation pending on a connection settles only while the connection is open
Pending(i, op, at) ==
  /\ rtc.tasks[i].op = op
  /\ rtc.tasks[i].at = at
  /\ rtc.tasks[i].conn # NoConn => ~rtc.conns[rtc.tasks[i].conn].closed

(* the callers of the manager in src/public/client.ts *)
OnRoomCreated == rtc.role = "none" /\ Step([rtc EXCEPT !.role = "host"])

OnRoomJoined == rtc.role = "none" /\ Step([rtc EXCEPT !.role = "client"])

HandleSessionRecovery(role) == Step(rebuildAfterReconnect([rtc EXCEPT !.role = role]))

ClearRoomState == Step([resetSession(rtc) EXCEPT !.role = "none"])

StartShare == rtc.role = "client" /\ Step(startScreenShare(rtc))

HandleCameraRequest == rtc.role = "client" /\ Step(startCameraStream(rtc))

OnWebrtcSignal(signal) == rtc.role # "none" /\ Step(handleSignal(rtc, signal))

OnPeerDisconnected == rtc.role # "none" /\ Step(clearForPeerDisconnect(rtc))

OnPeerReconnected == rtc.role # "none" /\ Step(rebuildAfterReconnect(rtc))

ScreenTrackEnded == rtc.screenListener /\ Step(stopScreenShare(rtc))

CameraTrackEnded == rtc.cameraListener /\ Step(stopCameraStream(rtc))

\* connection.ondatachannel: the peer has opened the control channel
OnDataChannel ==
  /\ rtc.peerConnection # NoConn
  /\ Step([rtc EXCEPT !.controlChannel = rtc.peerConnection])

\* channel.onmessage: handleControlMessage touches no field of the manager
\* whatever the frame and the host id the page knows, the manager is as it was
OnControlMessage ==
  /\ rtc.controlChannel # NoConn
  /\ {f \in ControlFrames \X KnownHosts :
        handleControlMessage(rtc.role, f[1], f[2]) \in
          [effects : Seq([effect : STRING, type : STRING]), threw : BOOLEAN]} # {}
  /\ Step(rtc)

\* connection.ontrack fires for a track of the peer's stream
OnTrack(stream) ==
  /\ rtc.peerConnection # NoConn
  /\ Step(ontrack(rtc, stream))

\* the media:kind listener of the page (client.ts:735-745)
OnMediaKind(streamId, kind) ==
  /\ rtc.role = "host"
  /\ Step(setRemoteStreamKind(rtc, streamId, kind))

(* the awaits of the manager *)
\* an await of the handleSignal execution tasks[i] rejects: no handler is
\* around it in handleSignal, the rejection leaves handleSignal and reaches
\* the catch of the page's webrtc:signal listener (client.ts:726-731)
handleSignalRaises(st, i) ==
  [st EXCEPT !.tasks = RemoveAt(@, i),
             !.lastRound = [NoRound EXCEPT !.raised = st.tasks[i].at]]

GetDisplayMediaSettles(i, ok) ==
  /\ Pending(i, "startScreenShare", "getDisplayMedia")
  /\ Step(IF ok THEN screenCaptured(rtc, i) ELSE [rtc EXCEPT !.tasks = RemoveAt(@, i)])

GetUserMediaSettles(i, ok) ==
  /\ Pending(i, "startCameraStream", "getUserMedia")
  /\ Step(IF ok THEN cameraCaptured(rtc, i) ELSE [rtc EXCEPT !.tasks = RemoveAt(@, i)])

CreateOfferSettles(i, ok) ==
  /\ Pending(i, "negotiateAsClient", "createOffer")
  /\ IF ok THEN Step([rtc EXCEPT !.tasks[i].at = "setLocalDescription"])
     ELSE Commit(negotiateFinally(rtc, i, FALSE))

\* ok is false when setLocalDescription rejects or the offer has no sdp;
\* otherwise the offer goes to options.onSignal
SetLocalOfferSettles(i, ok) ==
  /\ Pending(i, "negotiateAsClient", "setLocalDescription")
  /\ Commit(negotiateFinally(rtc, i, ok))

SetRemoteDescriptionSettles(i, ok) ==
  /\ Pending(i, "handleSignal", "setRemoteDescription")
  /\ IF ok
     THEN Step(flushPendingIceCandidates(
                 [noteAnswer(rtc, rtc.tasks[i].conn, rtc.tasks[i].signal)
                    EXCEPT !.conns[rtc.tasks[i].conn].remoteDescription = TRUE], i))
     ELSE Commit(handleSignalRaises(rtc, i))

\* the flush catches a rejection and goes on (part_001:717-722); the direct
\* call of handleSignal (part_001:400-402) has no handler around it
AddIceCandidateSettles(i, ok) ==
  /\ Pending(i, "handleSignal", "addIceCandidate")
  /\ IF rtc.tasks[i].signal # "ice-candidate" THEN Step(flushNext(rtc, i))
     ELSE IF ok THEN Step([rtc EXCEPT !.tasks = RemoveAt(@, i)])
     ELSE Commit(handleSignalRaises(rtc, i))

CreateAnswerSettles(i, ok) ==
  /\ Pending(i, "handleSignal", "createAnswer")
  /\ IF ok THEN Step([rtc EXCEPT !.tasks[i].at = "setLocalDescription"])
     ELSE Commit(handleSignalRaises(rtc, i))

\* ok is false when setLocalDescription rejects or the answer has no sdp;
\* otherwise the answer goes to options.onSignal
SetLocalAnswerSettles(i, ok) ==
  /\ Pending(i, "handleSignal", "setLocalDescription")
  /\ IF ok THEN Step([rtc EXCEPT !.tasks = RemoveAt(@, i)])
     ELSE Commit(handleSignalRaises(rtc, i))

\* the signals the endpoint receives; candidates are labelled by their place
\* among those the current connection has buffered
NextCandidate ==
  IF rtc.peerConnection = NoConn THEN 1
  ELSE Len(rtc.conns[rtc.peerConnection].buffered) + 1

EndpointSignals ==
  {[type |-> "offer"], [type |-> "answer"],
   [type |-> "ice-candidate", candidate |-> NextCandidate]}

NextRtc ==
  \/ OnRoomCreated
  \/ OnRoomJoined
  \/ \E role \in Roles : HandleSessionRecovery(role)
  \/ ClearRoomState
  \/ StartShare
  \/ HandleCameraRequest
  \/ \E signal \in EndpointSignals : OnWebrtcSignal(signal)
  \/ OnPeerDisconnected
  \/ OnPeerReconnected
  \/ ScreenTrackEnded
  \/ CameraTrackEnded
  \/ OnDataChannel
  \/ OnControlMessage
  \/ \E i \in TaskIdx, ok \in BOOLEAN : GetDisplayMediaSettles(i, ok)
  \/ \E i \in TaskIdx, ok \in BOOLEAN : GetUserMediaSettles(i, ok)
  \/ \E i \in TaskIdx, ok \in BOOLEAN : CreateOfferSettles(i, ok)
  \/ \E i \in TaskIdx, ok \in BOOLEAN : SetLocalOfferSettles(i, ok)
  \/ \E i \in TaskIdx, ok \in BOOLEAN : SetRemoteDescriptionSettles(i, ok)
  \/ \E i \in TaskIdx, ok \in BOOLEAN : CreateAnswerSettles(i, ok)
  \/ \E i \in TaskIdx, ok \in BOOLEAN : SetLocalAnswerSettles(i, ok)
  \/ \E i \in TaskIdx, ok \in BOOLEAN : AddIceCandidateSettles(i, ok)

(***************************************************************************)
(* Part III: one page (src/public/client.ts) joined to the gateway.        *)
(*                                                                         *)
(* link.toServer holds what the page has passed to socket.emit and the     *)
(* gateway has not handled yet, link.toEndpoint what the gateway has sent  *)
(* to the page's socket and its listeners have not handled yet; both are   *)
(* in order.  link.openChannel is the connection whose control data        *)
(* channel has readyState "open", link.cameraRequestPending is             *)
(* state.cameraRequestPending.  The page is the host's in the host         *)
(* session and the client's in the client session; the other participant  *)
(* is a sender of gateway events.  Offers, answers and candidates are not  *)
(* carried: the opening of the host's control channel stands for a         *)
(* negotiation the client has started.                                     *)
(***************************************************************************)
\* messages in flight in one direction
MaxInFlight == 2

\* the socket of the host's page and the first socket of the client
HostSocket == 1
ClientSocket == 2

HostUser == "user-aaaa-1"
ClientUser == "user-bbbb-2"

\* bounds of the session in which the client's socket is replaced
MaxSessionConns == 3
MaxSessionTasks == 4
MaxSessionInFlight == 3

LinkInit ==
  link = [toServer |-> <<>>, toEndpoint |-> <<>>, openChannel |-> NoConn,
          cameraRequestPending |-> FALSE,
          \* offers relayed to the host and not yet answered
          toHost |-> <<>>,
          \* history: the offer each answer handed to setRemoteDescription
          \* replies to, and the answers each connection has applied
          answers |-> <<>>,
          applied |-> [c \in 1..MaxSessionConns |-> {}],
          \* history: restores by the gateway, runs of handleSessionRecovery,
          \* offers emitted since the first of them, connections whose offer
          \* reached the host, streams held when the page learnt of a restore
          restores |-> 0, rebuilds |-> 0, offersAfter |-> 0, relayed |-> {},
          heldAtRestore |-> FALSE]

\* the events the listeners of client.ts act on in the sessions
HostListens == {"room:created", "peer:disconnected", "peer:reconnected"}
ClientListens == {"room:joined", "camera:request"}

RECURSIVE Deliverable(_, _, _)
\* the messages of out addressed to socket e that a listener acts on
Deliverable(out, e, listens) ==
  IF out = <<>> THEN <<>>
  ELSE (IF Head(out).to = e /\ Head(out).event \in listens
        THEN <<[event |-> Head(out).event]>> ELSE <<>>)
       \o Deliverable(Tail(out), e, listens)

\* the gateway handles an event of socket s; what it sends to the page's
\* socket e is in flight afterwards
Routed(e, listens, s, res) ==
  /\ Len(link.toEndpoint \o Deliverable(res.out, e, listens)) <= MaxInFlight
  /\ rooms' = res.rooms
  /\ sockets' = [sockets EXCEPT ![s].userId = res.userId]
  /\ link' = [link EXCEPT !.toEndpoint = @ \o Deliverable(res.out, e, listens)]
  /\ UNCHANGED rtc

\* the page runs: the manager becomes st and emits go to the gateway
PageStep(st, emits, lk) ==
  /\ WithinBounds(st)
  /\ Len(lk.toServer \o emits) <= MaxInFlight
  /\ rtc' = [st EXCEPT !.lastRound = NoRound]
  /\ link' = [lk EXCEPT !.toServer = @ \o emits]
  /\ UNCHANGED gwVars

\* options.onControlChannelStatus (client.ts:357-365)
onControlChannelStatus(st, active) ==
  IF st.role = "host" THEN <<[event |-> "control:status", active |-> active]>> ELSE <<>>

(* the host session *)
\* the page identifies once its socket is connected (client.ts: connect listener)
HostIdentifies ==
  /\ Live(HostSocket) /\ getUserId(HostSocket) = NoUser
  /\ Routed(HostSocket, HostListens, HostSocket,
            identifyResult(HostSocket, [userId |-> HostUser]))

HostCreatesRoom ==
  /\ Live(HostSocket) /\ rooms = <<>>
  /\ \E id \in ensureRoomId :
       Routed(HostSocket, HostListens, HostSocket, roomCreateResult(HostSocket, id))

\* the client's page on one of its sockets: identify, room:join, disconnect
PeerIdentifies(s) ==
  /\ Live(s) /\ getUserId(s) = NoUser
  /\ Routed(HostSocket, HostListens, s, identifyResult(s, [userId |-> ClientUser]))

PeerJoins(s) ==
  /\ Live(s) /\ rooms # <<>>
  /\ Routed(HostSocket, HostListens, s, roomJoinResult(s, [roomId |-> rooms[1].id]))

PeerDisconnects(s) ==
  /\ Live(s)
  /\ LET res == disconnectResult(s)
     IN /\ Len(link.toEndpoint \o Deliverable(res.out, HostSocket, HostListens)) <= MaxInFlight
        /\ rooms' = res.rooms
        /\ link' = [link EXCEPT
                      !.toEndpoint = @ \o Deliverable(res.out, HostSocket, HostListens)]
  /\ sockets' = [sockets EXCEPT ![s] = [status |-> "closed", userId |-> NoUser]]
  /\ UNCHANGED rtc

\* the listeners of the host's page (client.ts:667-676, 781-822)
HostPageReceives ==
  /\ link.toEndpoint # <<>>
  /\ LET m == Head(link.toEndpoint)
         lk == [link EXCEPT !.toEndpoint = Tail(@)]
     IN CASE m.event = "room:created" ->
               PageStep([rtc EXCEPT !.role = "host"], <<>>, lk)
          [] m.event = "peer:disconnected" ->
               PageStep(clearForPeerDisconnect(rtc), onControlChannelStatus(rtc, FALSE), lk)
          [] m.event = "peer:reconnected" ->
               PageStep(rebuildAfterReconnect(rtc), <<>>, lk)

\* connection.ondatachannel with a channel that opens (part_001:508-510,
\* 525-541): the client has negotiated a connection
ControlChannelOpens ==
  /\ rtc.role = "host"
  /\ rooms # <<>> /\ rooms[1].clientSocketId # NoSocket
  /\ LET s1 == ensurePeerConnection(rtc)
         st == [s1 EXCEPT !.controlChannel = s1.peerConnection]
     IN /\ link.openChannel # st.peerConnection
        /\ PageStep(st, onControlChannelStatus(st, TRUE),
                    [link EXCEPT !.openChannel = st.peerConnection])

\* channel.onclose (part_001:530-532): the remote end or the transport is gone
ControlChannelCloses ==
  /\ rtc.controlChannel # NoConn
  /\ link.openChannel = rtc.controlChannel
  /\ PageStep(rtc, onControlChannelStatus(rtc, FALSE), [link EXCEPT !.openChannel = NoConn])

\* the gateway handles the next event of the host's page
GatewayReceivesFromHost ==
  /\ link.toServer # <<>>
  /\ Live(HostSocket) /\ rooms # <<>>
  /\ LET m == Head(link.toServer)
         res == controlStatusResult(HostSocket, [roomId |-> rooms[1].id, active |-> m.active])
     IN /\ rooms' = res.rooms
        /\ link' = [link EXCEPT !.toServer = Tail(@)]
        /\ UNCHANGED <<sockets, rtc>>

NextHostSession ==
  \/ \E s \in Sockets : Connect(s)
  \/ HostIdentifies
  \/ HostCreatesRoom
  \/ \E s \in Sockets \ {HostSocket} : PeerIdentifies(s)
  \/ \E s \in Sockets \ {HostSocket} : PeerJoins(s)
  \/ \E s \in Sockets \ {HostSocket} : PeerDisconnects(s)
  \/ HostPageReceives
  \/ ControlChannelOpens
  \/ ControlChannelCloses
  \/ GatewayReceivesFromHost

(* the client session *)
\* the host, a sender of gateway events on its socket
PeerHostIdentifies ==
  /\ Live(HostSocket) /\ getUserId(HostSocket) = NoUser
  /\ Routed(ClientSocket, ClientListens, HostSocket,
            identifyResult(HostSocket, [userId |-> HostUser]))

PeerHostCreatesRoom ==
  /\ Live(HostSocket) /\ rooms = <<>>
  /\ \E id \in ensureRoomId :
       Routed(ClientSocket, ClientListens, HostSocket, roomCreateResult(HostSocket, id))

\* ui.bindEnableCamera (client.ts:560-566) on the host's page
PeerHostRequestsCamera ==
  /\ Live(HostSocket) /\ rooms # <<>>
  /\ Routed(ClientSocket, ClientListens, HostSocket,
            cameraRequestResult(HostSocket, [roomId |-> rooms[1].id]))

ClientIdentifies ==
  /\ Live(ClientSocket) /\ getUserId(ClientSocket) = NoUser
  /\ Routed(ClientSocket, ClientListens, ClientSocket,
            identifyResult(ClientSocket, [userId |-> ClientUser]))

\* ui.bindJoinRoom (client.ts:528-537)
ClientJoinsRoom ==
  /\ Live(ClientSocket) /\ rooms # <<>> /\ rtc.role = "none"
  /\ Routed(ClientSocket, ClientListens, ClientSocket,
            roomJoinResult(ClientSocket, [roomId |-> rooms[1].id]))

\* what handleCameraRequest emits after rtc.startCameraStream() has returned
\* (client.ts:512) or thrown (client.ts:514-518)
cameraStarted == <<[event |-> "camera:state", active |-> TRUE]>>

cameraStartFailed ==
  <<[event |-> "camera:permission", granted |-> FALSE],
    [event |-> "camera:state", active |-> FALSE]>>

\* the listeners of the client's page (client.ts:677-686, 755-757) and
\* handleCameraRequest up to its await of startCameraStream
\* (client.ts:481-510); approved is the stored or the asked approval
ClientPageReceives(approved) ==
  /\ link.toEndpoint # <<>>
  /\ LET m == Head(link.toEndpoint)
         lk == [link EXCEPT !.toEndpoint = Tail(@)]
     IN CASE m.event = "room:joined" ->
               PageStep([rtc EXCEPT !.role = "client"], <<>>, lk)
          [] m.event = "camera:request" ->
               IF rtc.role # "client" \/ link.cameraRequestPending
               THEN PageStep(rtc, <<>>, lk)
               ELSE IF ~approved
               THEN PageStep(rtc,
                             <<[event |-> "camera:permission", granted |-> FALSE],
                               [event |-> "camera:state", active |-> FALSE]>>, lk)
               ELSE PageStep(startCameraStream(rtc),
                             <<[event |-> "camera:permission", granted |-> TRUE]>>,
                             [lk EXCEPT !.cameraRequestPending = TRUE])

\* startCameraStream has returned in st when no execution of it is left
cameraOutcome(st, lk) ==
  IF \E k \in 1..Len(st.tasks) :
       st.tasks[k].op = "startCameraStream" \/ st.tasks[k].caller = "startCameraStream"
  THEN [emits |-> <<>>, link |-> lk]
  ELSE [emits |-> cameraStarted, link |-> [lk EXCEPT !.cameraRequestPending = FALSE]]

ClientGetUserMediaSettles(i, ok) ==
  /\ Pending(i, "startCameraStream", "getUserMedia")
  /\ IF ok
     THEN LET st == cameraCaptured(rtc, i)
          IN PageStep(st, cameraOutcome(st, link).emits, cameraOutcome(st, link).link)
     ELSE PageStep([rtc EXCEPT !.tasks = RemoveAt(@, i)], cameraStartFailed,
                   [link EXCEPT !.cameraRequestPending = FALSE])

\* createOffer or setLocalDescription of a round settles; a round that
\* startCameraStream awaits resumes handleCameraRequest when it ends
ClientOfferSettles(i, ok) ==
  /\ \/ Pending(i, "negotiateAsClient", "createOffer")
     \/ Pending(i, "negotiateAsClient", "setLocalDescription")
  /\ IF ok /\ rtc.tasks[i].at = "createOffer"
     THEN PageStep([rtc EXCEPT !.tasks[i].at = "setLocalDescription"], <<>>, link)
     ELSE LET st == negotiateFinally(rtc, i, ok)
          IN IF rtc.tasks[i].caller # "startCameraStream" THEN PageStep(st, <<>>, link)
             ELSE IF ok
             THEN PageStep(st, cameraStarted, [link EXCEPT !.cameraRequestPending = FALSE])
             ELSE PageStep(st, cameraStartFailed,
                           [link EXCEPT !.cameraRequestPending = FALSE])

\* a camera track ends: the "ended" listener of startCameraStream
\* (part_001:352-356) runs stopCameraStream
ClientCameraTrackEnded ==
  /\ rtc.cameraListener
  /\ PageStep(stopCameraStream(rtc), <<>>, link)

\* the gateway handles the next event of the client's page
GatewayReceivesFromClient ==
  /\ link.toServer # <<>>
  /\ Live(ClientSocket) /\ rooms # <<>>
  /\ LET m == Head(link.toServer)
         res == IF m.event = "camera:permission"
                THEN cameraPermissionResult(ClientSocket,
                       [roomId |-> rooms[1].id, granted |-> m.granted])
                ELSE cameraStateResult(ClientSocket,
                       [roomId |-> rooms[1].id, active |-> m.active])
     IN /\ rooms' = res.rooms
        /\ link' = [link EXCEPT !.toServer = Tail(@)]
        /\ UNCHANGED <<sockets, rtc>>

NextClientSession ==
  \/ \E s \in {HostSocket, ClientSocket} : Connect(s)
  \/ PeerHostIdentifies
  \/ PeerHostCreatesRoom
  \/ PeerHostRequestsCamera
  \/ ClientIdentifies
  \/ ClientJoinsRoom
  \/ \E approved \in BOOLEAN : ClientPageReceives(approved)
  \/ \E i \in TaskIdx, ok \in BOOLEAN : ClientGetUserMediaSettles(i, ok)
  \/ \E i \in TaskIdx, ok \in BOOLEAN : ClientOfferSettles(i, ok)
  \/ ClientCameraTrackEnded
  \/ GatewayReceivesFromClient

(***************************************************************************)
(* Specifications.                                                         *)
(***************************************************************************)
vars == <<rooms, sockets, rtc, link>>

Init == GwInit /\ RtcInit /\ LinkInit

Next ==
  \E s \in Sockets :
    \/ Connect(s)
    \/ \E userId \in Users \cup {InvalidUserId} : Identify(s, userId)
    \/ RoomCreate(s)
    \/ \E roomId \in EventRoomIds : RoomJoin(s, roomId)
    \/ \E roomId \in EventRoomIds, role \in Roles : RejoinRoom(s, roomId, role)
    \/ \E roomId \in RoomIds, signal \in EventSignals : WebrtcSignal(s, roomId, signal)
    \/ \E roomId \in EventRoomIds, active \in BOOLEAN : ControlStatus(s, roomId, active)
    \/ \E roomId \in EventRoomIds : CameraRequest(s, roomId)
    \/ \E roomId \in EventRoomIds, granted \in BOOLEAN : CameraPermission(s, roomId, granted)
    \/ \E roomId \in EventRoomIds, active \in BOOLEAN : CameraState(s, roomId, active)
    \/ \E roomId \in RoomIds, streamId \in {"stream-1"} : MediaKind(s, roomId, streamId, "screen")
    \/ Disconnect(s)

Spec == Init /\ [][Next]_vars

\* the gateway restricted to identify, room:create, room:join and disconnect
NextCJD ==
  \E s \in Sockets :
    \/ Connect(s)
    \/ \E userId \in Users \cup {InvalidUserId} : Identify(s, userId)
    \/ RoomCreate(s)
    \/ \E roomId \in EventRoomIds : RoomJoin(s, roomId)
    \/ Disconnect(s)

SpecCJD == Init /\ [][NextCJD]_vars

\* identify, room:create, room:join and disconnect with three identities
NextThreeUsers ==
  \E s \in Sockets :
    \/ Connect(s)
    \/ \E userId \in AllUsers : Identify(s, userId)
    \/ RoomCreate(s)
    \/ \E roomId \in RoomIds : RoomJoin(s, roomId)
    \/ Disconnect(s)

SpecThreeUsers == Init /\ [][NextThreeUsers]_vars

\* room:create while the registry is empty
RoomCreateFirst(s) == rooms = <<>> /\ RoomCreate(s)

\* one room and three identities: the events that bind a client and raise
\* the activity flags
NextOneRoom ==
  \E s \in Sockets :
    \/ Connect(s)
    \/ \E userId \in AllUsers : Identify(s, userId)
    \/ RoomCreateFirst(s)
    \/ \E roomId \in RoomIds : RoomJoin(s, roomId)
    \/ \E roomId \in RoomIds : RejoinRoom(s, roomId, "client")
    \/ \E roomId \in RoomIds : ControlStatus(s, roomId, TRUE)
    \/ \E roomId \in RoomIds : CameraState(s, roomId, TRUE)
    \/ Disconnect(s)

SpecOneRoom == Init /\ [][NextOneRoom]_vars

\* one endpoint's WebRtcManager driven by its callers and by the browser
SpecRtc == Init /\ [][NextRtc]_vars

\* the gateway, the host's page and a client that connects and reconnects
\* the endpoint with the media of both directions: what it captures as
\* client and what it receives as host
NextMedia ==
  \/ OnRoomCreated
  \/ OnRoomJoined
  \/ \E role \in Roles : HandleSessionRecovery(role)
  \/ ClearRoomState
  \/ StartShare
  \/ HandleCameraRequest
  \/ OnPeerDisconnected
  \/ OnPeerReconnected
  \/ ScreenTrackEnded
  \/ CameraTrackEnded
  \/ \E stream \in RemoteStreams : OnTrack(stream)
  \/ \E stream \in RemoteStreams : OnMediaKind(stream, RemotePurpose[stream])
  \/ \E i \in TaskIdx, ok \in BOOLEAN : GetDisplayMediaSettles(i, ok)
  \/ \E i \in TaskIdx, ok \in BOOLEAN : GetUserMediaSettles(i, ok)
  \/ \E i \in TaskIdx, ok \in BOOLEAN : CreateOfferSettles(i, ok)
  \/ \E i \in TaskIdx, ok \in BOOLEAN : SetLocalOfferSettles(i, ok)

SpecMedia == Init /\ [][NextMedia]_vars

SpecHostSession == Init /\ [][NextHostSession]_vars

\* the gateway, a host that asks for the camera and the client's page
SpecClientSession == Init /\ [][NextClientSession]_vars

(***************************************************************************)
(* Properties of the gateway.                                              *)
(***************************************************************************)
RoomIdx == 1..Len(rooms)

Bound(i, role, userId) ==
  IF role = "host" THEN rooms[i].hostUserId = userId
  ELSE rooms[i].clientUserId = userId

\* the (room, role) pairs a user is bound to
Bindings(userId) == {b \in RoomIdx \X Roles : Bound(b[1], b[2], userId)}

RegisteredSocket(room, role) ==
  IF role = "host" THEN room.hostSocketId ELSE room.clientSocketId

OtherRole(role) == IF role = "host" THEN "client" ELSE "host"

Relayed(out) == {k \in 1..Len(out) : out[k].event = "webrtc:signal"}

Errors(out) == {k \in 1..Len(out) : out[k].event = "room:error"}

\* C1: no room has hostSocketId and clientSocketId both set and equal.
C1_HostAndClientSocketsDiffer ==
  \A i \in RoomIdx :
    ~(rooms[i].hostSocketId # NoSocket /\ rooms[i].hostSocketId = rooms[i].clientSocketId)

\* C2: no room has clientUserId equal to its hostUserId.
C2_ClientIsNeverTheHost ==
  \A i \in RoomIdx : rooms[i].clientUserId # rooms[i].hostUserId

\* C2 case: a room with a bound client whose host's connection asks to join it
\* and is turned away.
C2_Witness ==
  \E i \in RoomIdx, s \in Sockets :
    /\ Live(s)
    /\ getUserId(s) = rooms[i].hostUserId
    /\ rooms[i].clientUserId # NoUser
    /\ roomJoinResult(s, [roomId |-> rooms[i].id]).out
         = emitError(s, "Host cannot join as client.")
    /\ rejoinRoomResult(s, [roomId |-> rooms[i].id, role |-> "client"]).out
         = emitError(s, "Host cannot rejoin as client.")

\* C3: a room whose clientSocketId is set also has clientUserId set.
C3_ClientSocketHasClientUser ==
  \A i \in RoomIdx : rooms[i].clientSocketId # NoSocket => rooms[i].clientUserId # NoUser

\* C3 case: a client connection is registered in a room.
C3_Witness ==
  \E i \in RoomIdx :
    /\ rooms[i].clientSocketId # NoSocket
    /\ Live(rooms[i].clientSocketId)
    /\ getUserId(rooms[i].clientSocketId) = rooms[i].clientUserId

\* C4: under identify, room:create, room:join and disconnect alone, every user
\* is host or client of at most one room, and never both.
C4_OneBindingUnderCreateJoin ==
  \A u \in AllUsers : Cardinality(Bindings(u)) <= 1

\* C4 case: two rooms exist, and a user bound to one of them asks to join the
\* other and is turned away.
C4_Witness ==
  \E i \in RoomIdx, j \in RoomIdx, s \in Sockets :
    /\ i # j
    /\ Live(s)
    /\ Bindings(getUserId(s)) # {}
    /\ \A b \in Bindings(getUserId(s)) : b[1] = i
    /\ roomJoinResult(s, [roomId |-> rooms[j].id]).out
         = emitError(s, "Already attached to another room.")

\* C5: under all gateway events, every user is bound to at most one room and
\* in at most one role; rejoin-room as client binds no user who is already
\* host or client of another room.
C5_OneBindingUnderAllEvents ==
  \A u \in AllUsers : \A b \in Bindings(u), c \in Bindings(u) : b = c

\* the sender of a webrtc:signal resolves to a role of the room but its
\* connection is not the one registered for that role
StaleSender(s, i) ==
  /\ Live(s)
  /\ getUserId(s) # NoUser
  /\ roleOfUserInRoom(rooms[i], getUserId(s)) # "none"
  /\ RegisteredSocket(rooms[i], roleOfUserInRoom(rooms[i], getUserId(s))) # s

\* C6: a webrtc:signal from a connection that is not the registered connection
\* of the sender's role is answered with the stale-socket error and relayed to
\* nobody.
C6_StaleSignalRejected ==
  \A s \in Sockets, i \in RoomIdx, sig \in Signals :
    StaleSender(s, i) =>
      LET out == webrtcSignalResult(s, [roomId |-> rooms[i].id, signal |-> sig]).out
      IN /\ Relayed(out) = {}
         /\ out = emitError(s, "Stale socket signaling rejected.")

\* C6 case: a superseded connection signals while the peer role has a
\* registered connection, and is turned away.
C6_Witness ==
  \E s \in Sockets, i \in RoomIdx, sig \in Signals :
    /\ StaleSender(s, i)
    /\ RegisteredSocket(rooms[i], roleOfUserInRoom(rooms[i], getUserId(s))) # NoSocket
    /\ RegisteredSocket(rooms[i], OtherRole(roleOfUserInRoom(rooms[i], getUserId(s))))
         \notin {NoSocket, s}
    /\ webrtcSignalResult(s, [roomId |-> rooms[i].id, signal |-> sig]).out
         = emitError(s, "Stale socket signaling rejected.")

\* the sender of a webrtc:signal is the registered connection of its role
CurrentSender(s, i) ==
  /\ Live(s)
  /\ getUserId(s) # NoUser
  /\ roleOfUserInRoom(rooms[i], getUserId(s)) # "none"
  /\ RegisteredSocket(rooms[i], roleOfUserInRoom(rooms[i], getUserId(s))) = s

\* C7: a webrtc:signal from the registered connection of a role goes, payload
\* unchanged, to the connection registered for the opposite role of the same
\* room and to no other; with no opposite connection it is dropped without an
\* error; no signal is ever relayed to its sender.
C7_SignalRelayedToPeerOnly ==
  \A s \in Sockets, i \in RoomIdx, sig \in Signals :
    LET p == [roomId |-> rooms[i].id, signal |-> sig]
        out == webrtcSignalResult(s, p).out
        role == roleOfUserInRoom(rooms[i], getUserId(s))
        peer == RegisteredSocket(rooms[i], OtherRole(role))
    IN /\ Live(s) => \A k \in Relayed(out) : out[k].to # s
       /\ CurrentSender(s, i) /\ peer = NoSocket => out = <<>>
       /\ CurrentSender(s, i) /\ peer \notin {NoSocket, s} =>
            out = <<[to |-> peer, event |-> "webrtc:signal", roomId |-> rooms[i].id,
                     fromUserId |-> getUserId(s), signal |-> sig]>>
       /\ CurrentSender(s, i) =>
            \A k \in 1..Len(out) :
              \/ out[k].event = "room:error" /\ peer = s
              \/ out[k].event = "webrtc:signal" /\ out[k].to = peer /\ out[k].signal = sig

\* C7 case: both roles of a room have distinct registered connections, a
\* second room exists, and the signal of one side goes to the other.
C7_Witness ==
  \E s \in Sockets, i \in RoomIdx, sig \in Signals :
    LET role == roleOfUserInRoom(rooms[i], getUserId(s))
        peer == RegisteredSocket(rooms[i], OtherRole(role))
    IN /\ CurrentSender(s, i)
       /\ peer \notin {NoSocket, s}
       /\ Len(rooms) > 1
       /\ webrtcSignalResult(s, [roomId |-> rooms[i].id, signal |-> sig]).out
            = <<[to |-> peer, event |-> "webrtc:signal", roomId |-> rooms[i].id,
                 fromUserId |-> getUserId(s), signal |-> sig]>>


(***************************************************************************)
(* Properties of the negotiation controller.                               *)
(***************************************************************************)
ConnIdx == 1..Len(rtc.conns)

IsPrefix(s, q) == Len(s) <= Len(q) /\ SubSeq(q, 1, Len(s)) = s

\* the handleSignal executions that are inside flushPendingIceCandidates on c
Flushing(c) ==
  {i \in TaskIdx : /\ rtc.tasks[i].op = "handleSignal"
                   /\ rtc.tasks[i].conn = c
                   /\ rtc.tasks[i].at = "addIceCandidate"
                   /\ rtc.tasks[i].signal \in {"offer", "answer"}}

\* C8: when negotiateAsClient is requested N >= 1 times while a round is in
\* flight, the end of that round starts exactly one follow-up round (none when
\* N = 0); until then the requests are held in hasQueuedRenegotiation and no
\* second round runs beside the one in flight.
C8_OneFollowUpAfterRound ==
  /\ rtc.lastRound.completed =>
       rtc.lastRound.followups = (IF rtc.lastRound.during >= 1 THEN 1 ELSE 0)
  /\ \A i \in LiveRounds(rtc) :
       /\ LiveRounds(rtc) = {i}
       /\ rtc.isNegotiating
       /\ rtc.tasks[i].during >= 1 => rtc.hasQueuedRenegotiation

\* C8 case: a round that saw two requests has just ended and one follow-up
\* round is in flight.
C8_Witness ==
  /\ rtc.lastRound.completed /\ rtc.lastRound.during = 2 /\ rtc.lastRound.followups = 1
  /\ Cardinality(LiveRounds(rtc)) = 1
  /\ \A i \in LiveRounds(rtc) : rtc.tasks[i].at = "createOffer" /\ rtc.tasks[i].during = 0

\* C9: at most one execution is inside the offer-producing section of
\* negotiateAsClient at any time.
C9_OneExecutionInOfferSection == Cardinality(Rounds(rtc)) <= 1

\* C10: on an open connection, candidates that arrive before a remote
\* description stay in the buffer in arrival order; once a remote description
\* is applied the buffer is empty and the buffered candidates go to
\* addIceCandidate in arrival order, each once.
C10_BufferedCandidatesAppliedInOrder ==
  \A c \in ConnIdx :
    ~rtc.conns[c].closed =>
      /\ c = rtc.peerConnection
      /\ IsPrefix(rtc.conns[c].flushed, rtc.conns[c].buffered)
      /\ ~rtc.conns[c].remoteDescription =>
           /\ rtc.conns[c].flushed = <<>>
           /\ rtc.pendingIceCandidates = rtc.conns[c].buffered
      /\ rtc.conns[c].remoteDescription =>
           /\ rtc.pendingIceCandidates = <<>>
           /\ \A i \in Flushing(c) :
                rtc.conns[c].flushed \o rtc.tasks[i].queue = rtc.conns[c].buffered
           /\ Flushing(c) = {} => rtc.conns[c].flushed = rtc.conns[c].buffered

\* C10 case: two candidates were buffered, a remote description was applied
\* and the flush has run to its end.
C10_Witness ==
  \E c \in ConnIdx :
    /\ ~rtc.conns[c].closed
    /\ rtc.conns[c].remoteDescription
    /\ Flushing(c) = {}
    /\ rtc.conns[c].buffered = <<1, 2>>
    /\ rtc.conns[c].flushed = <<1, 2>>
    /\ rtc.pendingIceCandidates = <<>>

(***************************************************************************)
(* Properties of the control channel.                                      *)
(***************************************************************************)
\* the schema of an inbound control message: a record with a known type, a
\* sender id of at least 10 characters and finite numbers where the type
\* needs them
SchemaValid(p) ==
  /\ p.isRecord
  /\ p.senderUserId # Absent
  /\ Len(p.senderUserId) >= 10
  /\ \/ p.type = "mousemove" /\ {p.x, p.y} \cap {Absent, NotFinite} = {}
     \/ p.type = "click" /\ {p.x, p.y, p.button} \cap {Absent, NotFinite} = {}
     \/ p.type = "scroll" /\ {p.deltaX, p.deltaY} \cap {Absent, NotFinite} = {}
     \/ p.type \in {"toggle-camera", "toggle-mic"}

\* C11: an inbound control message has a side effect only if the receiver is
\* a client, the message is text that parses to a schema-valid payload, and
\* its senderUserId is the host id the receiver knows; every other message
\* has no side effect and raises no error.
C11_ControlMessageAuthorized ==
  \A rawData \in ControlFrames, hostUserId \in KnownHosts :
    LET res == handleControlMessage(rtc.role, rawData, hostUserId)
        authorized == /\ rtc.role = "client"
                      /\ rawData.isString
                      /\ rawData.parses
                      /\ SchemaValid(rawData.value)
                      /\ hostUserId # NoUser
                      /\ rawData.value.senderUserId = hostUserId
    IN /\ res.effects # <<>> => authorized
       /\ ~authorized => res = [effects |-> <<>>, threw |-> FALSE]

\* C11 case: a client with an attached control channel; a click of the host
\* is carried out and the same click from another sender is dropped.
C11_Witness ==
  /\ rtc.role = "client"
  /\ rtc.controlChannel # NoConn
  /\ \E rawData \in ControlFrames, other \in ControlFrames :
       /\ rawData.value.type = "click"
       /\ Len(handleControlMessage(rtc.role, rawData, "user-aaaa-1").effects) = 3
       /\ other.value = [rawData.value EXCEPT !.senderUserId = "user-bbbb-2"]
       /\ handleControlMessage(rtc.role, other, "user-aaaa-1").effects = <<>>

(***************************************************************************)
(* Further properties of the gateway.                                      *)
(***************************************************************************)
\* C12: room:join by the host of the room is rejected with "Host cannot join
\* as client." and leaves the stored rooms as they were.
C12_HostJoinRejectedUnchanged ==
  \A s \in Sockets, i \in RoomIdx :
    (Live(s) /\ getUserId(s) # NoUser /\ getUserId(s) = rooms[i].hostUserId) =>
      LET res == roomJoinResult(s, [roomId |-> rooms[i].id])
      IN /\ res.out = emitError(s, "Host cannot join as client.")
         /\ res.rooms = rooms

\* C13: a room with controlActive has a client connection reference;
\* control:status from the registered host connection of the host stores
\* active AND (client connection reference set); from anyone else it is
\* answered with an error and does not raise the flag.
C13_ControlStatusHostOnly ==
  /\ \A i \in RoomIdx : rooms[i].controlActive => rooms[i].clientSocketId # NoSocket
  /\ \A s \in Sockets, i \in RoomIdx, active \in BOOLEAN :
       Live(s) =>
         LET res == controlStatusResult(s, [roomId |-> rooms[i].id, active |-> active])
             after == res.rooms[i]
         IN IF getUserId(s) = rooms[i].hostUserId /\ rooms[i].hostSocketId = s
            THEN /\ after.controlActive = (active /\ after.clientSocketId # NoSocket)
                 /\ res.out = emitRoomUpdate(after)
                 /\ \A j \in RoomIdx : j # i => res.rooms[j] = rooms[j]
            ELSE /\ Len(res.out) = 1
                 /\ res.out[1].to = s
                 /\ res.out[1].event = "room:error"
                 /\ after.controlActive => rooms[i].controlActive
                 /\ \A j \in RoomIdx : j # i => res.rooms[j] = rooms[j]

\* C13 case: control is active in a room with both connections attached, the
\* host connection can lower and raise it, and the client's connection is
\* turned away.
C13_Witness ==
  \E i \in RoomIdx :
    /\ rooms[i].controlActive
    /\ Live(rooms[i].hostSocketId)
    /\ getUserId(rooms[i].hostSocketId) = rooms[i].hostUserId
    /\ Live(rooms[i].clientSocketId)
    /\ getUserId(rooms[i].clientSocketId) = rooms[i].clientUserId
    /\ controlStatusResult(rooms[i].clientSocketId,
                           [roomId |-> rooms[i].id, active |-> TRUE]).out
         = emitError(rooms[i].clientSocketId, "Only active host can update control state.")

\* the messages of out, as a set
Sent(out) == {out[k] : k \in 1..Len(out)}

\* C14: when the connection registered for a role of a room disconnects, the
\* role's connection reference is cleared, both activity flags are false, the
\* peer's connection (if any) gets peer:disconnected naming the lost role, and
\* the updated room is broadcast.
C14_DisconnectClearsRole ==
  \A s \in Sockets, i \in RoomIdx, role \in Roles :
    (Live(s) /\ RegisteredSocket(rooms[i], role) = s) =>
      LET res == disconnectResult(s)
          after == res.rooms[i]
          peer == RegisteredSocket(rooms[i], OtherRole(role))
      IN /\ RegisteredSocket(after, role) = NoSocket
         /\ ~after.controlActive
         /\ ~after.cameraActive
         /\ peer # NoSocket =>
              [to |-> peer, event |-> "peer:disconnected",
               roomId |-> rooms[i].id, role |-> role] \in Sent(res.out)
         /\ Sent(emitRoomUpdate(after)) \subseteq Sent(res.out)

\* s is a connection of the user bound to role of room i, and another
\* connection is registered for that role
Superseded(s, i, role) ==
  /\ Live(s)
  /\ getUserId(s) # NoUser
  /\ Bound(i, role, getUserId(s))
  /\ RegisteredSocket(rooms[i], role) \notin {s, NoSocket}

\* what the events named by C15 make of the state when s sends them about
\* room i
SupersededEventResults(s, i) ==
  {webrtcSignalResult(s, [roomId |-> rooms[i].id, signal |-> signal]) : signal \in Signals}
  \cup {controlStatusResult(s, [roomId |-> rooms[i].id, active |-> b]) : b \in BOOLEAN}
  \cup {cameraRequestResult(s, [roomId |-> rooms[i].id])}
  \cup {cameraPermissionResult(s, [roomId |-> rooms[i].id, granted |-> b]) : b \in BOOLEAN}
  \cup {cameraStateResult(s, [roomId |-> rooms[i].id, active |-> b]) : b \in BOOLEAN}
  \cup {mediaKindResult(s, [roomId |-> rooms[i].id, streamId |-> "stream-1", kind |-> k]) :
          k \in {"screen", "camera"}}
  \cup {disconnectResult(s)}

\* C15: once a role of a room is registered to another connection, no
\* webrtc:signal, control:status, camera:request, camera:permission,
\* camera:state or media:kind from the superseded connection, nor its
\* disconnect, changes the room's connection references or activity flags
\* or sends a message to the peer.
C15_SupersededConnectionHasNoEffect ==
  \A s \in Sockets, i \in RoomIdx, role \in Roles :
    Superseded(s, i, role) =>
      \A res \in SupersededEventResults(s, i) :
        /\ res.rooms[i].hostSocketId = rooms[i].hostSocketId
        /\ res.rooms[i].clientSocketId = rooms[i].clientSocketId
        /\ res.rooms[i].controlActive = rooms[i].controlActive
        /\ res.rooms[i].cameraActive = rooms[i].cameraActive
        /\ \A m \in Sent(res.out) :
             m.to # RegisteredSocket(rooms[i], OtherRole(role))

\* C16: once a connection has identified, its bound userId never changes for
\* the life of the connection, whatever identify events it sends.
C16_IdentityBoundOnce ==
  [][\A s \in Sockets :
       (Live(s) /\ getUserId(s) # NoUser /\ sockets'[s].status = "live") =>
         sockets'[s].userId = sockets[s].userId]_vars

\* C17: room:join by a user on a room whose clientUserId is set to a different
\* user is answered with an error and leaves clientUserId as it is, whether
\* or not that client has a connection attached; and no event changes a set
\* clientUserId to another user's id.
C17_ClientIdentityIsFixed ==
  [][/\ \A s \in Sockets, i \in RoomIdx :
          (Live(s) /\ getUserId(s) # NoUser
             /\ rooms[i].clientUserId \notin {NoUser, getUserId(s)}) =>
            LET res == roomJoinResult(s, [roomId |-> rooms[i].id])
            IN /\ Errors(res.out) = {1}
               /\ Len(res.out) = 1
               /\ res.rooms[i].clientUserId = rooms[i].clientUserId
     /\ \A i \in RoomIdx :
          rooms[i].clientUserId # NoUser =>
            rooms'[i].clientUserId \in {NoUser, rooms[i].clientUserId}]_vars

\* the rooms userId hosts
HostedBy(userId) == {i \in RoomIdx : rooms[i].hostUserId = userId}

\* C18: room:create by a user who already hosts a room creates no room, the
\* room:created reply names the existing room and the caller's connection
\* becomes its host connection; room:create by a user who is a client is
\* rejected; no user is the host of two rooms.
C18_RoomCreateIsIdempotent ==
  /\ \A u \in AllUsers : Cardinality(HostedBy(u)) <= 1
  /\ \A s \in Sockets, id \in RoomIds :
       (Live(s) /\ getUserId(s) # NoUser) =>
         LET userId == getUserId(s)
             res == roomCreateResult(s, id)
         IN /\ \A i \in HostedBy(userId) :
                 /\ Len(res.rooms) = Len(rooms)
                 /\ \E m \in Sent(res.out) :
                      m.to = s /\ m.event = "room:created" /\ m.room.id = rooms[i].id
                 /\ res.rooms[i].hostSocketId = s
            /\ (HostedBy(userId) = {} /\ Bindings(userId) # {}) =>
                 /\ res.rooms = rooms
                 /\ Len(res.out) = 1
                 /\ Errors(res.out) = {1}

SixDecimalDigits(id) == Len(id) = 6 /\ \A k \in 1..Len(id) : id[k] \in 0..9

\* C19: every room id createRoom produces is exactly six decimal digits and
\* differs from the id of every room that already exists.
C19_RoomIdsSixDigitsAndFresh ==
  /\ \A n \in SampleNumbers \cup BoundaryNumbers : SixDecimalDigits(randomRoomId(n))
  /\ \A id \in ensureRoomId :
       /\ SixDecimalDigits(id)
       /\ \A i \in RoomIdx : rooms[i].id # id
  /\ \A i \in RoomIdx, j \in RoomIdx :
       /\ SixDecimalDigits(rooms[i].id)
       /\ rooms[i].id = rooms[j].id => i = j

C19_Witness ==
  /\ Len(rooms) = MaxRooms
  /\ \E i \in RoomIdx : rooms[i].id = <<0, 0, 0, 0, 4, 2>>

\* camera:request from the current host of room i finds a client connection
\* registered that fails the validation of its identity
CameraTargetFails(s, i) ==
  LET room0 == normalizeRoomState(rooms[i])
  IN /\ Live(s)
     /\ getUserId(s) # NoUser
     /\ canUserControlRoom(room0, getUserId(s))
     /\ room0.hostSocketId = s
     /\ room0.clientSocketId # NoSocket
     /\ ~(/\ Live(room0.clientSocketId)
          /\ getUserId(room0.clientSocketId) # NoUser
          /\ getUserId(room0.clientSocketId) = room0.clientUserId
          /\ getUserId(room0.clientSocketId) # room0.hostUserId)

\* C20: camera:request is delivered only to the registered, live client
\* connection whose identity is clientUserId and not hostUserId; when that
\* validation fails the request is answered with an error, the client
\* connection reference is cleared and both activity flags are false.
C20_CameraRequestTargetValidated ==
  \A s \in Sockets, i \in RoomIdx :
    Live(s) =>
      LET res == cameraRequestResult(s, [roomId |-> rooms[i].id])
          after == res.rooms[i]
      IN /\ \A m \in Sent(res.out) :
              m.event = "camera:request" =>
                /\ m.to # NoSocket
                /\ m.to = after.clientSocketId
                /\ Live(m.to)
                /\ getUserId(m.to) # NoUser
                /\ getUserId(m.to) = after.clientUserId
                /\ getUserId(m.to) # after.hostUserId
         /\ CameraTargetFails(s, i) =>
              /\ \E m \in Sent(res.out) : m.to = s /\ m.event = "room:error"
              /\ \A m \in Sent(res.out) : m.event # "camera:request"
              /\ after.clientSocketId = NoSocket
              /\ ~after.controlActive
              /\ ~after.cameraActive

C20_Witness ==
  /\ \E s \in Sockets, i \in RoomIdx : CameraTargetFails(s, i)
  /\ \E s \in Sockets, i \in RoomIdx :
       Live(s) /\ \E m \in Sent(cameraRequestResult(s, [roomId |-> rooms[i].id]).out) :
                    m.event = "camera:request"

\* s is the connection registered as client of room i and carries the
\* identity of the room's client
ClientSender(s, i) ==
  /\ Live(s)
  /\ getUserId(s) # NoUser
  /\ rooms[i].clientUserId = getUserId(s)
  /\ rooms[i].clientSocketId = s

\* what camera:permission, camera:state and media:kind from s about room i
\* make of the state
ClientEventResults(s, i) ==
  {cameraPermissionResult(s, [roomId |-> rooms[i].id, granted |-> b]) : b \in BOOLEAN}
  \cup {cameraStateResult(s, [roomId |-> rooms[i].id, active |-> b]) : b \in BOOLEAN}
  \cup {mediaKindResult(s, [roomId |-> rooms[i].id, streamId |-> "stream-1", kind |-> k]) :
          k \in {"screen", "camera"}}

\* what every event s can send, camera:state left out, makes of the state
EventResultsButCameraState(s) ==
  {identifyResult(s, [userId |-> u]) : u \in AllUsers \cup {InvalidUserId}}
  \cup {roomCreateResult(s, id) : id \in RoomIds}
  \cup {roomJoinResult(s, [roomId |-> r]) : r \in EventRoomIds}
  \cup {rejoinRoomResult(s, [roomId |-> x[1], role |-> x[2]]) : x \in EventRoomIds \X Roles}
  \cup {webrtcSignalResult(s, [roomId |-> x[1], signal |-> x[2]]) :
          x \in EventRoomIds \X EventSignals}
  \cup {controlStatusResult(s, [roomId |-> x[1], active |-> x[2]]) :
          x \in EventRoomIds \X BOOLEAN}
  \cup {cameraRequestResult(s, [roomId |-> r]) : r \in EventRoomIds}
  \cup {cameraPermissionResult(s, [roomId |-> x[1], granted |-> x[2]]) :
          x \in EventRoomIds \X BOOLEAN}
  \cup {mediaKindResult(s, [roomId |-> x[1], streamId |-> "stream-1", kind |-> x[2]]) :
          x \in EventRoomIds \X {"screen", "camera"}}
  \cup {disconnectResult(s)}

\* what every event s can send makes of the state, camera:state with active
\* true about room i from the room's registered client left out
EventResultsButClientCameraOn(s, i) ==
  EventResultsButCameraState(s)
  \cup {cameraStateResult(s, [roomId |-> x[1], active |-> x[2]]) :
          x \in {y \in EventRoomIds \X BOOLEAN :
                   ~(y[2] /\ y[1] = rooms[i].id /\ ClientSender(s, i))}}

\* C21: camera:permission, camera:state and media:kind have an effect only
\* when the room's client sends them from the connection registered as
\* client; cameraActive is raised only by such a camera:state with active
\* true; and a camera:permission with granted false leaves cameraActive false.
C21_ClientEventsFromClientOnly ==
  \A s \in Sockets, i \in RoomIdx :
    Live(s) =>
      /\ ~ClientSender(s, i) =>
           \A res \in ClientEventResults(s, i) :
             /\ \A m \in Sent(res.out) : m.to = s /\ m.event = "room:error"
             /\ res.rooms[i].cameraActive => rooms[i].cameraActive
             /\ res.rooms[i].controlActive => rooms[i].controlActive
             /\ res.rooms[i].hostSocketId = rooms[i].hostSocketId
             /\ res.rooms[i].clientUserId \in {NoUser, rooms[i].clientUserId}
      /\ \A res \in EventResultsButClientCameraOn(s, i) :
           res.rooms[i].cameraActive => rooms[i].cameraActive
      /\ ClientSender(s, i) =>
           ~cameraPermissionResult(s, [roomId |-> rooms[i].id, granted |-> FALSE])
              .rooms[i].cameraActive

C21_Witness ==
  \E s \in Sockets, q \in Sockets, i \in RoomIdx :
    /\ ClientSender(s, i)
    /\ rooms[i].cameraActive
    /\ Live(q) /\ q # s /\ getUserId(q) = rooms[i].clientUserId

\* what every event s can send makes of the state
EventResults(s) ==
  EventResultsButCameraState(s)
  \cup {cameraStateResult(s, [roomId |-> x[1], active |-> x[2]]) :
          x \in EventRoomIds \X BOOLEAN}

\* the request was answered with room:error, the failed client validation of
\* camera:request apart
Rejected(res) ==
  \E m \in Sent(res.out) :
    m.event = "room:error" /\ m.message # "No valid connected client available."

\* C22: a request rejected for a malformed payload, a missing identity, an
\* unknown room or an authorization or stale-connection failure leaves every
\* room record as it was; the clearing done by a failed camera:request client
\* validation is the one exception.
C22_RejectedRequestChangesNothing ==
  \A s \in Sockets :
    Live(s) => \A res \in EventResults(s) : Rejected(res) => res.rooms = rooms

\* the positions in out of the messages of event sent to socket to
Positions(out, to, event) ==
  {k \in 1..Len(out) : out[k].to = to /\ out[k].event = event}

\* C23: when a connection identifies with a userId that is host or client of
\* a room, the connection becomes the registered connection of that role, it
\* receives session:restored, the peer's connection (if any) receives
\* peer:reconnected, and after these a room:update with the restored room is
\* sent to both registered connections.
C23_IdentifyRestoresSession ==
  \A s \in Sockets, u \in AllUsers :
    Live(s) =>
      \A b \in Bindings(u) :
        LET i == b[1]
            role == b[2]
            res == identifyResult(s, [userId |-> u])
            after == res.rooms[i]
            peer == RegisteredSocket(rooms[i], OtherRole(role))
            notices == Positions(res.out, s, "session:restored")
                       \cup (IF peer \notin {NoSocket, s}
                             THEN Positions(res.out, peer, "peer:reconnected") ELSE {})
        IN /\ RegisteredSocket(after, role) = s
           /\ Positions(res.out, s, "session:restored") # {}
           /\ peer \notin {NoSocket, s} =>
                \E k \in Positions(res.out, peer, "peer:reconnected") :
                  res.out[k].roomId = rooms[i].id /\ res.out[k].role = role
           /\ \A q \in {after.hostSocketId, after.clientSocketId} \ {NoSocket} :
                \E k \in Positions(res.out, q, "room:update") :
                  /\ res.out[k].room = snapshotRoom(after)
                  /\ \A n \in notices : n < k

\* the event bound the client identity of room i: first binding or another user
ClientBound(res, i) == res.rooms[i].clientUserId \notin {NoUser, rooms[i].clientUserId}

\* C24: when room:join or rejoin-room binds a room's clientUserId to a user
\* (first binding or a different user), controlActive and cameraActive are
\* false right after the event, and on room:join the host's connection
\* receives room:client-joined.
C24_NewClientStartsInactive ==
  \A s \in Sockets, i \in RoomIdx :
    Live(s) =>
      /\ LET res == roomJoinResult(s, [roomId |-> rooms[i].id])
             after == res.rooms[i]
         IN ClientBound(res, i) =>
              /\ ~after.controlActive
              /\ ~after.cameraActive
              /\ after.hostSocketId # NoSocket =>
                   \E m \in Sent(res.out) :
                     /\ m.to = after.hostSocketId
                     /\ m.event = "room:client-joined"
                     /\ m.clientUserId = after.clientUserId
      /\ \A role \in Roles :
           LET res == rejoinRoomResult(s, [roomId |-> rooms[i].id, role |-> role])
               after == res.rooms[i]
           IN ClientBound(res, i) => (~after.controlActive /\ ~after.cameraActive)

C24_Witness ==
  \E s \in Sockets, i \in RoomIdx :
    /\ Live(s)
    /\ rooms[i].hostSocketId \notin {NoSocket, s}
    /\ rooms[i].clientUserId # NoUser
    /\ ClientBound(roomJoinResult(s, [roomId |-> rooms[i].id]), i)

\* C25: a room, once created, keeps its id and its hostUserId and is never
\* removed from the registry, whatever events follow, the disconnect of all
\* its participants included.
C25_RoomsArePermanent ==
  [][/\ Len(rooms') >= Len(rooms)
     /\ \A i \in RoomIdx :
          /\ rooms'[i].id = rooms[i].id
          /\ rooms'[i].hostUserId = rooms[i].hostUserId]_vars

C25_Witness ==
  \E i \in RoomIdx :
    /\ rooms[i].hostSocketId = NoSocket
    /\ rooms[i].clientSocketId = NoSocket
    /\ rooms[i].clientUserId # NoUser
    /\ \A s \in Sockets : ~Live(s)

(***************************************************************************)
(* Further properties of the negotiation controller.                       *)
(***************************************************************************)
\* an offer of the current connection has gone out and no answer has been
\* applied since
OfferPending(st) ==
  st.peerConnection # NoConn /\ st.conns[st.peerConnection].offerPending

\* C26: the client endpoint emits no new offer while the answer to the offer
\* it emitted before has not been received and applied.
C26_OneOfferAnswerRoundInFlight ==
  [][rtc'.lastRound.offer => ~OfferPending(rtc)]_vars

(***************************************************************************)
(* Properties of the sessions.                                             *)
(***************************************************************************)
\* nothing is in flight between the page and the gateway
Quiescent == link.toServer = <<>> /\ link.toEndpoint = <<>>

\* the host's manager holds a control channel whose readyState is "open"
HostChannelOpen == rtc.controlChannel # NoConn /\ link.openChannel = rtc.controlChannel

\* C27: in every quiescent state of gateway and endpoints, controlActive of
\* the room is true only if the control data channel of the host's endpoint
\* is open, also after the client's connection has been superseded without
\* a disconnect event and the host has rebuilt its connection on
\* peer:reconnected.
C27_ControlActiveMeansChannelOpen ==
  Quiescent => \A i \in RoomIdx : rooms[i].controlActive => HostChannelOpen

\* C28: in every quiescent state of gateway and client endpoint, cameraActive
\* of the room is true only if the client's endpoint holds a live local
\* camera stream; after the camera track has ended and stopCameraStream has
\* run, cameraActive becomes false.
C28_CameraActiveMeansLiveStream ==
  Quiescent => \A i \in RoomIdx : rooms[i].cameraActive => rtc.localCameraStream # NoStream

\* C29: a failure to apply one ICE candidate, whether the candidate was
\* buffered and flushed or applied at once because a remote description was
\* set, never leaves handleSignal as an error (it reaches neither the caller
\* nor the user) and never keeps a later candidate from being applied: a
\* later candidate is again buffered or handed to addIceCandidate.
C29_CandidateFailureIsSilent ==
  /\ rtc.lastRound.raised # "addIceCandidate"
  /\ rtc.role # "none" =>
       \A signal \in EndpointSignals :
         signal.type = "ice-candidate" =>
           LET st == handleSignal(rtc, signal)
           IN \/ Len(st.pendingIceCandidates) = Len(rtc.pendingIceCandidates) + 1
              \/ /\ Len(st.tasks) = Len(rtc.tasks) + 1
                 /\ st.tasks[Len(st.tasks)].at = "addIceCandidate"

\* what rebuildAfterReconnect does to the manager st of an endpoint in a room
RebuildDiscardsAndCreates(st) ==
  LET after == rebuildAfterReconnect(st) IN
  /\ st.peerConnection # NoConn => after.conns[st.peerConnection].closed
  /\ after.peerConnection = Len(st.conns) + 1
  /\ ~after.conns[after.peerConnection].closed

RebuildAttachesHeldStreams(st) ==
  LET after == rebuildAfterReconnect(st) IN
  /\ heldStreams(after) = heldStreams(st)
  /\ heldStreams(st) \subseteq after.conns[after.peerConnection].attached

RebuildOffersOnlyAsClient(st) ==
  LET after == rebuildAfterReconnect(st) IN
  Rounds(after) # Rounds(st) => st.role = "client"

\* C30, as the code has it: on peer:reconnected the controller discards its
\* previous peer connection and creates a new one; if its role is client it
\* attaches every local stream it still holds to the new connection, and it
\* starts an offer only if its role is client; an endpoint whose role is host
\* emits no offer in any state.
C30_RebuildOnPeerReconnected ==
  /\ rtc.role # "none" =>
       /\ RebuildDiscardsAndCreates(rtc)
       /\ rtc.role = "client" => RebuildAttachesHeldStreams(rtc)
       /\ RebuildOffersOnlyAsClient(rtc)
  /\ rtc.lastRound.offer => rtc.role = "client"
  /\ rtc.role = "host" => LiveRounds(rtc) = {}

\* C30 case: a client that holds its camera stream has rebuilt: the first
\* connection is closed, the camera is attached to the second and the round
\* of the rebuild is in flight.
C30_Witness ==
  /\ rtc.role = "client" /\ rtc.localCameraStream # NoStream /\ rtc.cameraListener
  /\ Len(rtc.conns) = 2 /\ rtc.conns[1].closed /\ rtc.peerConnection = 2
  /\ "camera" \in rtc.conns[2].attached
  /\ \E i \in LiveRounds(rtc) :
       rtc.tasks[i].at = "createOffer" /\ rtc.tasks[i].caller = "none"

\* C30 as stated: the held streams are attached whatever the role is.
C30_RebuildAttachesInEveryRole ==
  rtc.role # "none" => RebuildAttachesHeldStreams(rtc)

(***************************************************************************)
(* Properties of the media of the endpoint.                                *)
(***************************************************************************)
\* C31: clearForPeerDisconnect leaves the local screen and camera streams
\* the endpoint holds as they are, neither stopped nor dropped, while it
\* removes the peer connection and the control channel and empties the map
\* of remote stream kinds and the buffer of pending remote streams.
C31_PeerDisconnectKeepsLocalStreams ==
  rtc.role # "none" =>
    LET after == clearForPeerDisconnect(rtc) IN
    /\ after.localScreenStream = rtc.localScreenStream
    /\ after.localCameraStream = rtc.localCameraStream
    /\ after.screenListener = rtc.screenListener
    /\ after.cameraListener = rtc.cameraListener
    /\ after.peerConnection = NoConn
    /\ after.controlChannel = NoConn
    /\ rtc.peerConnection # NoConn => after.conns[rtc.peerConnection].closed
    /\ \A s \in RemoteStreams : after.streamKinds[s] = NoKind
    /\ after.pendingRemoteStreams = {}

\* C31 case: the peer has gone while the client held a camera stream whose
\* tracks are live: the connection is closed and the stream is still held.
C31_Witness ==
  /\ rtc.role = "client"
  /\ rtc.localCameraStream # NoStream /\ rtc.cameraListener
  /\ rtc.peerConnection = NoConn /\ rtc.controlChannel = NoConn
  /\ Len(rtc.conns) = 1 /\ rtc.conns[1].closed

\* C32: for a remote stream s and the announcement of its purpose k, whether
\* the track or the announcement comes first and with no clearRemoteMedia in
\* between, s is passed to the callback of purpose k and never to the
\* callback of the other purpose, and afterwards s is not in the buffer of
\* pending remote streams; the stream id alone links the two, whatever the
\* order in which several streams and announcements arrive.
C32_RemoteStreamGoesToItsPurpose ==
  \A s \in RemoteStreams :
    /\ rtc.delivered[s] \subseteq {RemotePurpose[s]}
    /\ s \in rtc.arrived /\ rtc.streamKinds[s] # NoKind =>
         /\ rtc.delivered[s] = {rtc.streamKinds[s]}
         /\ s \notin rtc.pendingRemoteStreams
    /\ s \in rtc.pendingRemoteStreams => s \in rtc.arrived /\ rtc.streamKinds[s] = NoKind

\* C32 case: both streams have arrived and been announced; the screen
\* callback holds the stream announced as screen, the camera callback the
\* other.
C32_Witness ==
  /\ rtc.arrived = RemoteStreams
  /\ \A s \in RemoteStreams : rtc.streamKinds[s] = RemotePurpose[s]
  /\ rtc.remoteScreenStream = "stream-1" /\ rtc.remoteCameraStream = "stream-2"
  /\ rtc.pendingRemoteStreams = {}

\* the calls of onLocalStreamKind for the held stream of the kind
Announced(st, kind) == IF kind \in heldStreams(st) THEN st.kindCalls[kind] ELSE 0

OneMore(n) == IF n < MaxKindCalls THEN n + 1 ELSE n

\* C33, as the code has it: onLocalStreamKind is called with a stream's id
\* and purpose once when startScreenShare or startCameraStream captures the
\* stream and once more by every rebuildAfterReconnect that the endpoint
\* runs as client while it holds the stream; clearForPeerDisconnect and a
\* rebuild in another role call it for no stream.
C33_LocalStreamKindAnnounced ==
  /\ \A kind \in StreamKinds :
       /\ kind \in heldStreams(rtc) => rtc.kindCalls[kind] >= 1
       /\ kind \notin heldStreams(rtc) => rtc.kindCalls[kind] = 0
  /\ clearForPeerDisconnect(rtc).kindCalls = rtc.kindCalls
  /\ \A kind \in StreamKinds :
       rebuildAfterReconnect(rtc).kindCalls[kind] =
         IF rtc.role = "client" /\ kind \in heldStreams(rtc)
         THEN OneMore(rtc.kindCalls[kind]) ELSE rtc.kindCalls[kind]
  /\ \A i \in TaskIdx :
       /\ Pending(i, "startScreenShare", "getDisplayMedia") =>
            screenCaptured(rtc, i).kindCalls =
              [rtc.kindCalls EXCEPT !["screen"] = 1]
       /\ Pending(i, "startCameraStream", "getUserMedia") =>
            cameraCaptured(rtc, i).kindCalls =
              [rtc.kindCalls EXCEPT !["camera"] = 1]

\* C33 case: the client has rebuilt while it held its screen stream, which
\* has now been announced twice.
C33_Witness ==
  /\ rtc.role = "client" /\ rtc.localScreenStream # NoStream
  /\ rtc.kindCalls["screen"] = 2
  /\ Len(rtc.conns) >= 2 /\ rtc.conns[1].closed

\* C33 as stated: exactly one call for each outbound stream.
C33_AnnouncedExactlyOnce ==
  \A kind \in heldStreams(rtc) : rtc.kindCalls[kind] = 1

(***************************************************************************)
(* The session of a client whose socket is replaced.  rtc is the manager   *)
(* of the client's page; the gateway is the one of Part I; the host is a   *)
(* page at HostSocket that answers every offer it is relayed.  The page's  *)
(* socket is ClientSocket until it drops and NewClientSocket afterwards;   *)
(* what the page emits while no connection is up waits in toServer, and    *)
(* what was in flight to the dropped connection is lost.                   *)
(***************************************************************************)
NewClientSocket == 3

ClientSocketNow ==
  IF sockets[NewClientSocket].status # "unborn" THEN NewClientSocket ELSE ClientSocket

\* the session description a connection produces names the connection
SdpOf(c) == "v=0 pc-" \o ToString(c)

ConnOfSdp(sdp) == CHOOSE c \in 1..MaxSessionConns : SdpOf(c) = sdp

NoSignal == [type |-> "none", sdp |-> ""]

\* the listeners of the page that reach the manager
ReconnectListens == {"room:joined", "session:restored", "identify:ok", "webrtc:signal"}

Envelope(o) ==
  [event |-> o.event,
   restored |-> o.event = "identify:ok" /\ o.restored,
   role |-> IF o.event = "session:restored" THEN o.role
            ELSE IF o.event = "identify:ok" /\ o.restored THEN o.role
            ELSE "none",
   signal |-> IF o.event = "webrtc:signal" THEN o.signal ELSE NoSignal]

RECURSIVE EnvelopesFor(_, _)
EnvelopesFor(out, s) ==
  IF out = <<>> THEN <<>>
  ELSE (IF Head(out).to = s /\ Head(out).event \in ReconnectListens
        THEN <<Envelope(Head(out))>> ELSE <<>>)
       \o EnvelopesFor(Tail(out), s)

\* the offers among what the gateway sends to the host
RECURSIVE OffersFor(_, _)
OffersFor(out, s) ==
  IF out = <<>> THEN <<>>
  ELSE (IF Head(out).to = s /\ Head(out).event = "webrtc:signal"
           /\ Head(out).signal.type = "offer"
        THEN <<Head(out).signal>> ELSE <<>>)
       \o OffersFor(Tail(out), s)

Restored(out, s) ==
  {k \in 1..Len(out) : out[k].to = s /\ out[k].event = "session:restored"} # {}

\* the gateway has run a handler for socket s, result is what it did; lk is
\* the link once the message that started it is consumed
GatewayStep(s, result, lk) ==
  \E res \in {result} :
    \E toPage \in {EnvelopesFor(res.out, ClientSocketNow)},
       offers \in {OffersFor(res.out, HostSocket)} :
      /\ Len(lk.toEndpoint \o toPage) <= MaxSessionInFlight
      /\ Len(lk.toHost \o offers) <= MaxSessionInFlight
      /\ rooms' = res.rooms
      /\ sockets' = [sockets EXCEPT ![s].userId = res.userId]
      /\ link' = [lk EXCEPT
                    !.toEndpoint = @ \o toPage,
                    !.toHost = @ \o offers,
                    !.relayed = @ \cup {ConnOfSdp(offers[k].sdp) : k \in 1..Len(offers)},
                    !.restores = IF Restored(res.out, ClientSocketNow) THEN @ + 1 ELSE @]
      /\ UNCHANGED rtc

WithinSessionBounds(st) ==
  /\ Len(st.conns) <= MaxSessionConns
  /\ Len(st.tasks) <= MaxSessionTasks

\* the page has run a listener or a continuation once: after is the manager
\* it leaves, emits what it sent
SessionStep(after, emits, lk) ==
  \E st \in {after} :
    /\ WithinSessionBounds(st)
    /\ Len(lk.toServer \o emits) <= MaxSessionInFlight
    /\ rtc' = [st EXCEPT !.lastRound = NoRound]
    /\ link' = [lk EXCEPT !.toServer = @ \o emits]
    /\ UNCHANGED gwVars

Emit(event) == [event |-> event, signal |-> NoSignal, kind |-> NoKind]

\* onSignal of a page that has no room: nothing is sent
onSignalWithoutRoom(signal) == <<>>

\* rtc.onSignal (client.ts:350-356)
onSignal(signal) == <<[Emit("webrtc:signal") EXCEPT !.signal = signal]>>

\* rtc.onLocalStreamKind (client.ts:372-378), once per stream the manager
\* announces
localStreamKinds(kinds) ==
  (IF "screen" \in kinds THEN <<[Emit("media:kind") EXCEPT !.kind = "screen"]>> ELSE <<>>)
  \o (IF "camera" \in kinds THEN <<[Emit("media:kind") EXCEPT !.kind = "camera"]>> ELSE <<>>)

\* the socket of the page connects and its "connect" listener identifies
\* the user (client.ts:631-637)
PageConnects(s) ==
  /\ sockets[s].status = "unborn"
  /\ sockets[HostSocket].status # "unborn"
  /\ s = NewClientSocket => sockets[ClientSocket].status = "closed"
  /\ Len(link.toServer) < MaxSessionInFlight
  /\ sockets' = [sockets EXCEPT ![s].status = "live"]
  /\ link' = [link EXCEPT !.toServer = Append(@, Emit("identify"))]
  /\ UNCHANGED <<rooms, rtc>>

\* ui.bindJoinRoom (client.ts:528-537)
PageJoinsRoom ==
  /\ rtc.role = "none" /\ rooms # <<>>
  /\ getUserId(ClientSocketNow) = ClientUser
  /\ {k \in 1..Len(link.toServer) : link.toServer[k].event = "room:join"} = {}
  /\ SessionStep(rtc, <<Emit("room:join")>>, link)

\* the connection of the page is lost: the gateway handles "disconnect"
\* (socket.js:489-504)
ClientSocketDrops ==
  /\ rtc.role = "client"
  /\ rooms' = disconnectResult(ClientSocket).rooms
  /\ Live(ClientSocket)
  /\ sockets' = [sockets EXCEPT ![ClientSocket] = [status |-> "closed", userId |-> NoUser]]
  /\ link' = [link EXCEPT !.toEndpoint = <<>>]
  /\ UNCHANGED rtc

GatewayReceivesFromPage ==
  /\ link.toServer # <<>>
  /\ Live(ClientSocketNow)
  /\ LET m == Head(link.toServer)
         s == ClientSocketNow
         roomId == IF rooms = <<>> THEN "" ELSE rooms[1].id
         res == IF m.event = "identify" THEN identifyResult(s, [userId |-> ClientUser])
                ELSE IF m.event = "room:join" THEN roomJoinResult(s, [roomId |-> roomId])
                ELSE IF m.event = "media:kind"
                THEN mediaKindResult(s, [roomId |-> roomId, streamId |-> m.kind,
                                         kind |-> m.kind])
                ELSE webrtcSignalResult(s, [roomId |-> roomId, signal |-> m.signal])
     IN GatewayStep(s, res, [link EXCEPT !.toServer = Tail(@)])

\* the host's page applies an offer and emits its answer, which the gateway
\* relays (socket.js:311-344)
HostAnswers ==
  /\ link.toHost # <<>>
  /\ Live(HostSocket) /\ rooms # <<>>
  /\ GatewayStep(HostSocket,
                 webrtcSignalResult(HostSocket,
                   [roomId |-> rooms[1].id,
                    signal |-> [type |-> "answer", sdp |-> Head(link.toHost).sdp]]),
                 [link EXCEPT !.toHost = Tail(@)])

\* the captures the page is waiting for
Capturing(st) == {i \in 1..Len(st.tasks) : st.tasks[i].op = "startScreenShare"}

\* handleSessionRecovery (client.ts:459-468)
handleSessionRecovery(role, lk) ==
  \E st \in {rebuildAfterReconnect([rtc EXCEPT !.role = role])} :
     SessionStep(st,
       IF role = "client" THEN localStreamKinds(heldStreams(st)) ELSE <<>>,
       [lk EXCEPT !.rebuilds = @ + 1,
                  !.heldAtRestore =
                     IF lk.rebuilds = 0
                     THEN heldStreams(rtc) # {} /\ Capturing(rtc) = {}
                     ELSE @])

\* the answers that wait for setRemoteDescription, in the order of the tasks
AnswerIndex(st, i) ==
  Cardinality({j \in 1..i : st.tasks[j].op = "handleSignal"})

\* the listeners of the page (client.ts:645-665, 671-685, 717-733)
PageReceives ==
  /\ link.toEndpoint # <<>>
  /\ LET m == Head(link.toEndpoint)
         lk == [link EXCEPT !.toEndpoint = Tail(@)]
     IN CASE m.event = "room:joined" ->
               SessionStep([rtc EXCEPT !.role = "client"], <<>>, lk)
          [] m.event = "session:restored" -> handleSessionRecovery(m.role, lk)
          [] m.event = "identify:ok" ->
               IF m.restored /\ m.role # "none" THEN handleSessionRecovery(m.role, lk)
               \* attemptStoredRejoin: the page has no stored session
               ELSE SessionStep(rtc, <<>>, lk)
          [] m.event = "webrtc:signal" ->
               IF rtc.role = "none" THEN SessionStep(rtc, <<>>, lk)
               ELSE SessionStep(handleSignal(rtc, m.signal), <<>>,
                      [lk EXCEPT !.answers =
                         Append(@, ConnOfSdp(m.signal.sdp))])

PageStartsShare ==
  /\ rtc.role = "client" /\ rtc.localScreenStream = NoStream
  /\ Capturing(rtc) = {}
  /\ SessionStep(startScreenShare(rtc), <<>>, link)

PageDisplayMediaSettles(i) ==
  /\ Pending(i, "startScreenShare", "getDisplayMedia")
  /\ SessionStep(screenCaptured(rtc, i), localStreamKinds({"screen"}), link)

PageCreateOfferSettles(i) ==
  /\ Pending(i, "negotiateAsClient", "createOffer")
  /\ SessionStep([rtc EXCEPT !.tasks[i].at = "setLocalDescription"], <<>>, link)

PageSetLocalOfferSettles(i) ==
  /\ Pending(i, "negotiateAsClient", "setLocalDescription")
  /\ SessionStep(negotiateFinally(rtc, i, TRUE),
                 onSignal([type |-> "offer", sdp |-> SdpOf(rtc.tasks[i].conn)]),
                 [link EXCEPT !.offersAfter = IF link.rebuilds > 0 THEN @ + 1 ELSE @])

\* setRemoteDescription of an answer settles: it resolves only on a
\* connection that has a local offer outstanding
PageSetRemoteAnswerSettles(i, ok) ==
  /\ Pending(i, "handleSignal", "setRemoteDescription")
  /\ LET c == rtc.tasks[i].conn
         k == AnswerIndex(rtc, i)
         lk == [link EXCEPT !.answers = RemoveAt(@, k)]
     IN /\ ok => rtc.conns[c].offerPending
        /\ IF ok
           THEN SessionStep(flushPendingIceCandidates(
                              [noteAnswer(rtc, c, "answer")
                                 EXCEPT !.conns[c].remoteDescription = TRUE], i),
                            <<>>,
                            [lk EXCEPT !.applied[c] = @ \cup {link.answers[k]}])
           ELSE SessionStep(handleSignalRaises(rtc, i), <<>>, lk)

NextReconnect ==
  \/ Connect(HostSocket)
  \/ PeerHostIdentifies
  \/ PeerHostCreatesRoom
  \/ \E s \in {ClientSocket, NewClientSocket} : PageConnects(s)
  \/ PageJoinsRoom
  \/ ClientSocketDrops
  \/ GatewayReceivesFromPage
  \/ HostAnswers
  \/ PageReceives
  \/ PageStartsShare
  \/ \E i \in TaskIdx : PageDisplayMediaSettles(i)
  \/ \E i \in TaskIdx : PageCreateOfferSettles(i)
  \/ \E i \in TaskIdx : PageSetLocalOfferSettles(i)
  \/ \E i \in TaskIdx, ok \in BOOLEAN : PageSetRemoteAnswerSettles(i, ok)

SpecReconnect == Init /\ [][NextReconnect]_vars

\* messages are delivered and the awaits of a live connection settle
ReconnectFairness ==
  /\ WF_vars(GatewayReceivesFromPage)
  /\ WF_vars(HostAnswers)
  /\ WF_vars(PageReceives)
  /\ WF_vars(\E i \in TaskIdx : PageCreateOfferSettles(i))
  /\ WF_vars(\E i \in TaskIdx : PageSetLocalOfferSettles(i))
  /\ WF_vars(\E i \in TaskIdx, ok \in BOOLEAN : PageSetRemoteAnswerSettles(i, ok))

SpecReconnectFair == SpecReconnect /\ ReconnectFairness

(***************************************************************************)
(* Properties of the gateway and of the sessions, continued.               *)
(***************************************************************************)
\* C34: after the disconnect event of a connection s has been handled, no
\* room of the registry has s as hostSocketId or as clientSocketId, in every
\* reachable state (also where several rooms, or both roles of one room,
\* refer to s), and peer:disconnected is never sent to s itself.
C34_DisconnectForgetsConnection ==
  \A s \in Sockets :
    Live(s) =>
      LET res == disconnectResult(s) IN
      /\ \A i \in 1..Len(res.rooms) :
           res.rooms[i].hostSocketId # s /\ res.rooms[i].clientSocketId # s
      /\ \A k \in 1..Len(res.out) :
           res.out[k].event = "peer:disconnected" => res.out[k].to # s

\* C35: every answer the client's endpoint applies as a remote description
\* replies to an offer of the peer connection it is applied to, the current
\* one, never to an offer of a connection that rebuildAfterReconnect,
\* clearForPeerDisconnect or resetSession has closed, whatever the order of
\* reconnect notifications, restores and relayed signals.
C35_AnswerMatchesCurrentOffer ==
  \A c \in 1..MaxSessionConns : link.applied[c] \subseteq {c}

\* what a teardown leaves: an empty buffer, every execution of handleSignal
\* (a flush in progress among them) cut for good with no candidate left to
\* apply, and a current connection, if there is one, that has been handed
\* nothing
TornDown(st) ==
  /\ st.pendingIceCandidates = <<>>
  /\ \A i \in 1..Len(st.tasks) :
       st.tasks[i].op = "handleSignal" =>
         /\ st.tasks[i].at = "never"
         /\ st.tasks[i].queue = <<>>
         /\ st.tasks[i].conn # st.peerConnection
  /\ st.peerConnection # NoConn =>
       /\ st.conns[st.peerConnection].buffered = <<>>
       /\ st.conns[st.peerConnection].flushed = <<>>

\* C38: ICE candidates buffered before a peer connection is torn down (by
\* clearForPeerDisconnect, rebuildAfterReconnect or resetSession) are never
\* applied to a peer connection created after the teardown, also when the
\* teardown comes while a flush of the buffer is in progress: the teardown
\* empties the buffer and cuts the flush, and a connection is only ever
\* handed candidates that were buffered while it was the current one.
C38_TeardownDiscardsBufferedCandidates ==
  /\ TornDown(clearForPeerDisconnect(rtc))
  /\ TornDown(rebuildAfterReconnect(rtc))
  /\ TornDown(resetSession(rtc))
  /\ \A i \in TaskIdx :
       rtc.tasks[i].queue # <<>> =>
         /\ rtc.tasks[i].conn = rtc.peerConnection
         /\ Len(rtc.tasks[i].queue) <= Len(rtc.conns[rtc.tasks[i].conn].buffered)
  /\ \A c \in ConnIdx :
       Len(rtc.conns[c].flushed) <= Len(rtc.conns[c].buffered)

\* C38 case: a teardown has cut an execution of handleSignal, and the
\* connection created after it has buffered a candidate of its own and
\* flushed it, and nothing else
C38_Witness ==
  /\ \E i \in TaskIdx : rtc.tasks[i].op = "handleSignal" /\ rtc.tasks[i].at = "never"
  /\ rtc.peerConnection # NoConn
  /\ rtc.conns[rtc.peerConnection].remoteDescription
  /\ rtc.conns[rtc.peerConnection].buffered = <<1>>
  /\ rtc.conns[rtc.peerConnection].flushed = <<1>>

\* the room:update messages of out about room that go to socket to
UpdatesFor(out, to, room) ==
  {k \in Positions(out, to, "room:update") : out[k].room.id = room.id}

\* C37: after every event of the gateway that changes the stored state of a
\* room (connection references, clientUserId or activity flags), a
\* room:update that carries the room as it is at the end of the event goes
\* to each connection then bound to the room, so that the last snapshot a
\* bound connection has received is the record of the gateway.
C37_RoomUpdateFollowsEveryChange ==
  \A s \in Sockets :
    Live(s) =>
      \A res \in EventResults(s) :
        \A i \in 1..Len(res.rooms) :
          (i > Len(rooms) \/ res.rooms[i] # rooms[i]) =>
            \A role \in Roles :
              LET to == RegisteredSocket(res.rooms[i], role)
                  ups == UpdatesFor(res.out, to, res.rooms[i])
              IN to # NoSocket =>
                   /\ ups # {}
                   /\ \E k \in ups :
                        /\ \A j \in ups : j <= k
                        /\ res.out[k].room = snapshotRoom(res.rooms[i])

\* both notifications of a restore have been handled and nothing is in
\* flight or pending
Settled ==
  /\ link.toServer = <<>> /\ link.toEndpoint = <<>> /\ link.toHost = <<>>
  /\ \A i \in 1..Len(rtc.tasks) :
       rtc.tasks[i].conn # NoConn /\ rtc.conns[rtc.tasks[i].conn].closed

\* C36: for each restore of a connection by the gateway the restored page
\* rebuilds its peer connection exactly once, and a client that holds local
\* streams emits exactly one offer for the restore.
C36_OneRebuildPerRestore ==
  /\ link.rebuilds <= link.restores
  /\ Settled =>
       /\ link.rebuilds = link.restores
       /\ link.heldAtRestore => link.offersAfter = link.restores

\* the gateway has restored the client, who holds a local stream, to a room
\* whose host is attached
RestoredHoldingStream ==
  /\ link.restores > 0 /\ rtc.role = "client" /\ heldStreams(rtc) # {}
  /\ rooms # <<>> /\ rooms[1].hostSocketId = HostSocket

\* an offer of the peer connection the client built for the restore has
\* been relayed to the host's connection
NewOfferRelayed ==
  /\ link.rebuilds > 0
  /\ rtc.peerConnection # NoConn /\ rtc.peerConnection \in link.relayed

\* C39: if a client that holds a local screen or camera stream is restored
\* to its room while a host connection is attached, then, messages being
\* delivered, offers being created and nobody disconnecting any more, an
\* offer of the client's new peer connection is eventually relayed to the
\* host's current connection.
C39_RestoredClientOfferReachesHost == RestoredHoldingStream ~> NewOfferRelayed

C39_Witness == link.heldAtRestore /\ RestoredHoldingStream /\ NewOfferRelayed
=============================================================================
